---- MODULE Spec2Model ----
(***************************************************************************)
(* Ledger Query & Financial Insight Subsystem of coinwise-backend.         *)
(*                                                                         *)
(* The model covers the insight endpoint (routers/ai_insights.py): the     *)
(* per-owner rate limiter, the insight cache, the transaction aggregation, *)
(* the insight compiler with its mock fallback, and the model fallback     *)
(* dispatcher of the chat router (routers/gemini.py); the ledger endpoints *)
(* (routers/transactions.py): listing with its joins and pagination, the   *)
(* summary, and the mutations; and requests in flight at the same time on  *)
(* the event loop, each running from one await to the next.                *)
(*                                                                         *)
(* Time is a wall clock in whole seconds.  Amounts are whole pesos.        *)
(* Percentages that the code rounds to two decimals are kept in hundredths *)
(* of a percent.                                                           *)
(***************************************************************************)
EXTENDS Integers, Sequences, FiniteSets, TLC

None == "None_"          \* Python's None (distinct from the text "None")

----------------------------------------------------------------------------
(* Program constants *)

MaxRequests == 10            \* get_ai_insights: check_rate_limit(max_requests=10)
WindowMinutes == 60          \* get_ai_insights: check_rate_limit(window_minutes=60)
SecondsPerMinute == 60       \* check_rate_limit: total_seconds() / 60
CacheTtlHours == 4           \* get_ai_insights: timedelta(hours=4)
MinTransactions == 3         \* get_ai_insights: total_transactions < 3
StatusRateLimited == 429     \* check_rate_limit: HTTPException(status_code=429)
StatusInsightFailed == 500   \* get_ai_insights: HTTPException(status_code=500)
StatusOk == 200              \* FastAPI default status of a returned body
StatusAllModelsLimited == 429   \* generate_content_with_fallback, line 99
StatusBackendError == 500       \* generate_content_with_fallback, line 107

WindowSeconds == WindowMinutes * SecondsPerMinute
CacheTtlSeconds == CacheTtlHours * 60 * 60

----------------------------------------------------------------------------
(* Bounds of the model *)

MaxRateClock == 3600         \* last instant of the rate-limiter specification
MaxClock == 14400            \* last instant of the insight specification

Owners == {"u1", "u2"}

\* Clock advances offered to the rate-limiter specification: half a minute
\* short of the window, and the whole window.
RateDelays == {WindowSeconds - 30, WindowSeconds}

\* Clock advances offered to the insight specification: one second short of
\* the cache TTL, and the whole TTL.
CacheDelays == {CacheTtlSeconds - 1, CacheTtlSeconds}

----------------------------------------------------------------------------
VARIABLES
    now,              \* datetime.now(), in seconds
    user_requests,    \* ai_insights.user_requests: owner -> list of timestamps
    rate_result,      \* outcome of the last check_rate_limit call
    current_model_index,  \* gemini.model_manager.current_model_index
    dispatch_result,      \* outcome of the last generate_content_with_fallback
    insights_cache,   \* ai_insights.insights_cache: key -> (insights, time)
    transactions,     \* db.transactions: the stored documents
    insight_result,   \* response of the last get_ai_insights request
    compile_result,   \* outcome of the last generate_ai_insights_gemini call
    list_result,      \* response of the last get_my_transactions request
    page_session,     \* the pages a client has stitched together so far
    summary_result,   \* response of the last get_transaction_summary request
    insight_tasks,    \* the get_ai_insights requests being served, by slot
    chat_tasks        \* the generate_text requests being served, by slot

rateVars == <<now, user_requests, rate_result>>
dispVars == <<current_model_index, dispatch_result>>
insightVars == <<insights_cache, transactions, insight_result, compile_result>>
ledgerVars == <<list_result, page_session, summary_result>>
taskVars == <<insight_tasks, chat_tasks>>
vars == <<now, user_requests, rate_result, current_model_index, dispatch_result,
          insights_cache, transactions, insight_result, compile_result,
          list_result, page_session, summary_result,
          insight_tasks, chat_tasks>>

----------------------------------------------------------------------------
(* Helpers *)

\* Python int(x / d) for an integer numerator: truncation toward zero.
IntTrunc(n, d) == IF n >= 0 THEN n \div d ELSE -((-n) \div d)

\* dict lookup with the "if user_id not in user_requests" default.
RequestsOf(reqs, u) == IF u \in DOMAIN reqs THEN reqs[u] ELSE <<>>

\* An assignment that forgets every other key of the dict.
DictPutAlone(d, k, v) == [x \in {k} |-> v]

\* dict assignment d[k] = v.
DictPut(d, k, v) == [x \in (DOMAIN d) \cup {k} |-> IF x = k THEN v ELSE d[x]]

----------------------------------------------------------------------------
(* check_rate_limit *)

\* A pruning that keeps the timestamp that is exactly one window old.
PruneRequestsInclusive(list, cutoff) == SelectSeq(list, LAMBDA t : t >= cutoff)

\* line 38: keep the timestamps younger than the cutoff.
PruneRequests(list, cutoff) == SelectSeq(list, LAMBDA t : t > cutoff)

\* line 41: minutes until the oldest kept timestamp leaves the window.
RemainingTime(list, t, window_minutes) ==
    IntTrunc(list[1] + window_minutes * SecondsPerMinute - t, SecondsPerMinute)

\* A limiter that records the request before testing the count, so that a
\* rejected request takes a slot.
CheckRateLimitRecordsFirst(reqs, u, t, max_requests, window_minutes) ==
    LET cutoff == t - window_minutes * SecondsPerMinute
        kept == PruneRequests(RequestsOf(reqs, u), cutoff)
    IN  IF Len(kept) >= max_requests
        THEN [accepted |-> FALSE,
              status |-> StatusRateLimited,
              retry_minutes |-> RemainingTime(kept, t, window_minutes),
              requests |-> DictPut(reqs, u, Append(kept, t))]
        ELSE [accepted |-> TRUE,
              status |-> StatusOk,
              retry_minutes |-> 0,
              requests |-> DictPut(reqs, u, Append(kept, t))]

\* A limiter that keeps one list for all the owners.
CheckRateLimitSharedList(reqs, u, t, max_requests, window_minutes) ==
    LET cutoff == t - window_minutes * SecondsPerMinute
        kept == PruneRequests(RequestsOf(reqs, "u1"), cutoff)
    IN  IF Len(kept) >= max_requests
        THEN [accepted |-> FALSE,
              status |-> StatusRateLimited,
              retry_minutes |-> RemainingTime(kept, t, window_minutes),
              requests |-> DictPut(reqs, u, kept)]
        ELSE [accepted |-> TRUE,
              status |-> StatusOk,
              retry_minutes |-> 0,
              requests |-> DictPut(reqs, u, Append(kept, t))]

\* The whole function as one step (it contains no await): the new list of the
\* owner and either acceptance or the 429 rejection with its minutes.
CheckRateLimit(reqs, u, t, max_requests, window_minutes) ==
    LET cutoff == t - window_minutes * SecondsPerMinute
        kept == PruneRequests(RequestsOf(reqs, u), cutoff)
    IN  IF Len(kept) >= max_requests
        THEN [accepted |-> FALSE,
              status |-> StatusRateLimited,
              retry_minutes |-> RemainingTime(kept, t, window_minutes),
              requests |-> DictPut(reqs, u, kept)]
        ELSE [accepted |-> TRUE,
              status |-> StatusOk,
              retry_minutes |-> 0,
              requests |-> DictPut(reqs, u, Append(kept, t))]

NoRateResult == [user |-> None, accepted |-> TRUE, status |-> StatusOk,
                 retry_minutes |-> 0, at |-> 0, before |-> <<>>]

\* One call of check_rate_limit with the endpoint's arguments.
RateLimitCall(u) ==
    LET r == CheckRateLimit(user_requests, u, now, MaxRequests, WindowMinutes)
    IN  /\ user_requests' = r.requests
        /\ rate_result' = [user |-> u, accepted |-> r.accepted,
                           status |-> r.status,
                           retry_minutes |-> r.retry_minutes,
                           at |-> now,
                           before |-> RequestsOf(user_requests, u)]
        /\ UNCHANGED <<taskVars, ledgerVars, now, dispVars, insightVars>>

\* The wall clock moves on between requests.
RateTick(d) ==
    /\ now + d <= MaxRateClock
    /\ now' = now + d
    /\ UNCHANGED <<taskVars, ledgerVars, user_requests, rate_result, dispVars, insightVars>>

----------------------------------------------------------------------------
(* ModelManager (routers/gemini.py) *)

\* Texts are sequences of one-character strings, so that substring tests and
\* lower() are computed and not assumed.
Contains(hay, needle) ==
    \E i \in 0..(Len(hay) - Len(needle)) :
        \A j \in 1..Len(needle) : hay[i + j] = needle[j]

LowerChar(c) ==
    CASE c = "Q" -> "q"
      [] c = "R" -> "r"
      [] c = "L" -> "l"
      [] c = "E" -> "e"
      [] OTHER -> c

Lower(text) == [i \in 1..Len(text) |-> LowerChar(text[i])]

\* self.models, in order of preference.
Models ==
    << [name |-> "gemini-2.5-flash", priority |-> 1],
       [name |-> "gemini-2.0-flash", priority |-> 2],
       [name |-> "gemini-2.5-flash-lite", priority |-> 3] >>

\* The keywords of line 93.
QuotaKeywords ==
    { <<"4", "2", "9">>,
      <<"4", "0", "4">>,
      <<"q", "u", "o", "t", "a">>,
      <<"r", "a", "t", "e", " ", "l", "i", "m", "i", "t">>,
      <<"r", "e", "s", "o", "u", "r", "c", "e", " ",
        "e", "x", "h", "a", "u", "s", "t", "e", "d">> }

\* A classifier that has lost the "quota" keyword.
IsRateLimitErrorNoQuota(description) ==
    LET error_msg == Lower(description)
    IN  \E k \in QuotaKeywords \ {<<"q", "u", "o", "t", "a">>} :
            Contains(error_msg, k)

\* lines 89-93: any(keyword in str(e).lower() ...).
IsRateLimitError(description) ==
    LET error_msg == Lower(description)
    IN  \E k \in QuotaKeywords : Contains(error_msg, k)

\* A switch that goes back to the primary model once the list is used up.
SwitchToNextModelResetting(index) ==
    IF index < Len(Models) - 1
    THEN [index |-> index + 1, switched |-> TRUE]
    ELSE [index |-> 0, switched |-> FALSE]

\* switch_to_next_model: the new index and the returned flag.
SwitchToNextModel(index) ==
    IF index < Len(Models) - 1
    THEN [index |-> index + 1, switched |-> TRUE]
    ELSE [index |-> index, switched |-> FALSE]

\* Error descriptions (str(e)) a backend may raise.
Err429 == <<"4", "2", "9">>
Err404 == <<"4", "0", "4">>
ErrQuota == <<"Q", "u", "o", "t", "a">>
ErrRateLimit == <<"R", "a", "t", "e", " ", "L", "i", "m", "i", "t">>
ErrResourceExhausted ==
    <<"R", "e", "s", "o", "u", "r", "c", "e", " ",
      "e", "x", "h", "a", "u", "s", "t", "e", "d">>
ErrRateHyphen == <<"r", "a", "t", "e", "-", "l", "i", "m", "i", "t">>
ErrInternal == <<"5", "0", "0">>

ErrorDescriptions ==
    {Err429, Err404, ErrQuota, ErrRateLimit, ErrResourceExhausted,
     ErrRateHyphen, ErrInternal}

\* What one backend does when called: it answers (<<>>) or raises an error
\* with a description.
Answers == << >>
BackendOutcomes == {Answers} \cup ErrorDescriptions

\* What each backend from the current one on does during one call of the
\* dispatcher (the backends before the current index are never called).
Behaviours(index) == [index..(Len(Models) - 1) -> BackendOutcomes]

Prompts == {"p1", "p2"}
\* chat_history: <<>> stands for None and for the empty list (both falsy).
Histories == { << >>, << [role |-> "user", parts |-> "hello"] >> }

DetailNone == [kind |-> "none", text |-> << >>]
\* line 100: "All AI models are currently rate limited. Please try again later."
DetailAllRateLimited == [kind |-> "all_models_rate_limited", text |-> << >>]
\* line 111: "Failed to generate response after {attempts} attempts"
DetailAttempts == [kind |-> "failed_after_attempts", text |-> << >>]
\* line 107: detail=str(e)
DetailError(description) == [kind |-> "error", text |-> description]

NoResponse == [model |-> None, prompt |-> None, history |-> << >>]

\* lines 76-84: the request sent to the current backend.
BackendCall(index, prompt, chat_history) ==
    [model |-> Models[index + 1].name,
     api |-> IF chat_history # << >> THEN "send_message" ELSE "generate_content",
     prompt |-> prompt,
     history |-> chat_history]

\* lines 74-112: the loop of generate_content_with_fallback from the state
\* (index, attempts), with the calls made so far.
RECURSIVE FallbackLoop(_, _, _, _, _, _, _)
FallbackLoop(index, attempts, calls, raised, prompt, chat_history, behaviour) ==
    IF attempts >= Len(Models)
    THEN [index |-> index, status |-> StatusBackendError,
          detail |-> DetailAttempts,
          response |-> NoResponse, calls |-> calls, raised |-> raised]
    ELSE LET call == BackendCall(index, prompt, chat_history)
             made == Append(calls, call)
             outcome == behaviour[index]
         IN  IF outcome = Answers
             THEN [index |-> index, status |-> StatusOk, detail |-> DetailNone,
                   response |-> [model |-> call.model, prompt |-> prompt,
                                 history |-> chat_history],
                   calls |-> made, raised |-> raised]
             ELSE IF IsRateLimitError(outcome)
             THEN LET sw == SwitchToNextModel(index)
                  IN  IF ~sw.switched
                      THEN [index |-> sw.index, status |-> StatusAllModelsLimited,
                            detail |-> DetailAllRateLimited,
                            response |-> NoResponse, calls |-> made,
                            raised |-> Append(raised, outcome)]
                      ELSE FallbackLoop(sw.index, attempts + 1, made,
                                        Append(raised, outcome),
                                        prompt, chat_history, behaviour)
             ELSE [index |-> index, status |-> StatusBackendError,
                   detail |-> DetailError(outcome),
                   response |-> NoResponse, calls |-> made,
                   raised |-> Append(raised, outcome)]

NoDispatchResult ==
    [status |-> StatusOk, detail |-> DetailNone, response |-> NoResponse,
     calls |-> << >>, raised |-> << >>, started_at |-> 0]

\* One call of model_manager.generate_content_with_fallback.
GenerateContentWithFallback(prompt, chat_history, behaviour) ==
    LET r == FallbackLoop(current_model_index, 0, << >>, << >>, prompt,
                          chat_history, behaviour)
    IN  /\ current_model_index' = r.index
        /\ dispatch_result' = [status |-> r.status, detail |-> r.detail,
                               response |-> r.response, calls |-> r.calls,
                               raised |-> r.raised,
                               started_at |-> current_model_index]
        /\ UNCHANGED <<taskVars, ledgerVars, rateVars, insightVars>>

DispNext ==
    \E p \in Prompts, h \in Histories :
        \E b \in Behaviours(current_model_index) :
            GenerateContentWithFallback(p, h, b)

----------------------------------------------------------------------------
(* Stored data *)

\* db.categories: category id -> category_name (None: no such category).
CategoryNameOf(category_id) ==
    CASE category_id = "c_food" -> "Food"
      [] category_id = "c_bills" -> "Bills"
      [] category_id = "c_salary" -> "Salary"
      [] OTHER -> None

\* The documents of db.transactions when the process starts.  Amounts may be
\* stored with either sign whatever the type.
StoredTransactions ==
    { [_id |-> "t1", user_id |-> "u1", category_id |-> "c_food",
       name |-> "Jollibee", amount |-> 500, type |-> "expense", date |-> 0],
      [_id |-> "t2", user_id |-> "u1", category_id |-> "c_food",
       name |-> "Sari-sari", amount |-> -300, type |-> "expense", date |-> 0],
      [_id |-> "t3", user_id |-> "u1", category_id |-> "c_bills",
       name |-> "Meralco", amount |-> 200, type |-> "expense", date |-> 0],
      [_id |-> "t4", user_id |-> "u1", category_id |-> "c_salary",
       name |-> "Payroll", amount |-> 1000, type |-> "income", date |-> 0],
      [_id |-> "t5", user_id |-> "u2", category_id |-> "c_food",
       name |-> "Jollibee", amount |-> 950, type |-> "expense", date |-> 0] }

----------------------------------------------------------------------------
(* aggregate_user_transactions *)

Abs(n) == IF n < 0 THEN -n ELSE n

\* Python truthiness of an optional string.
Truthy(x) == x # None /\ x # ""

\* round(n / d, 0) for d > 0 on exact values: nearest, ties to even.
RoundDiv(n, d) ==
    LET q == n \div d
        r == n - q * d
    IN  IF 2 * r < d THEN q
        ELSE IF 2 * r > d THEN q + 1
        ELSE IF q % 2 = 0 THEN q ELSE q + 1

RECURSIVE SumAmounts(_)
SumAmounts(docs) ==
    IF docs = {} THEN 0
    ELSE LET d == CHOOSE x \in docs : TRUE
         IN  d.amount + SumAmounts(docs \ {d})

RECURSIVE SumField(_, _)
\* sum(row[field] for row in rows) over a list of records.
SumField(rows, field) ==
    IF rows = << >> THEN 0
    ELSE Head(rows)[field] + SumField(Tail(rows), field)

\* lines 147-153: the $match stage.
MatchFilter(d, user_id, start_date, end_date, category) ==
    /\ d.user_id = user_id
    /\ d.date >= start_date
    /\ d.date <= end_date
    /\ Truthy(category) => d.category_id = category

\* lines 186-194: the $group stage, one row per (category_name, type).
GroupKey(d) == [category_name |-> CategoryNameOf(d.category_id), type |-> d.type]

GroupRows(matched) ==
    { [_id |-> k,
       total |-> SumAmounts({d \in matched : GroupKey(d) = k}),
       count |-> Cardinality({d \in matched : GroupKey(d) = k}),
       type |-> k.type] : k \in {GroupKey(d) : d \in matched} }

RECURSIVE SortByTotalDesc(_)
\* line 196: {"$sort": {"total": -1}}.
SortByTotalDesc(rows) ==
    IF rows = {} THEN << >>
    ELSE LET top == CHOOSE x \in rows : \A y \in rows : x.total >= y.total
         IN  <<top>> \o SortByTotalDesc(rows \ {top})

RECURSIVE InsertByTotalDesc(_, _)
\* list.sort(key=total, reverse=True) is stable: a row goes after the rows
\* whose total is at least its own.
InsertByTotalDesc(sorted, row) ==
    IF sorted = << >> THEN <<row>>
    ELSE IF Head(sorted).total >= row.total
         THEN <<Head(sorted)>> \o InsertByTotalDesc(Tail(sorted), row)
         ELSE <<row>> \o sorted

RECURSIVE StableSortByTotalDesc(_)
StableSortByTotalDesc(rows) ==
    IF rows = << >> THEN << >>
    ELSE InsertByTotalDesc(
             StableSortByTotalDesc(SubSeq(rows, 1, Len(rows) - 1)),
             rows[Len(rows)])

FirstN(rows, n) == SubSeq(rows, 1, IF Len(rows) < n THEN Len(rows) ELSE n)

\* lines 223-233: expense categories, absolute totals, largest first, top 10.
ExpenseByCategory(category_results) ==
    LET expense == SelectSeq(category_results, LAMBDA c : c.type = "expense")
        formatted == [i \in 1..Len(expense) |->
                        [name |-> IF expense[i]._id.category_name # None
                                  THEN expense[i]._id.category_name
                                  ELSE "Uncategorized",
                         total |-> Abs(expense[i].total),
                         count |-> expense[i].count]]
    IN  FirstN(StableSortByTotalDesc(formatted), 10)

\* A savings rate that drops the digits after the second decimal.
SavingsRateTruncating(total_income, total_expense) ==
    IF total_income > 0
    THEN ((total_income - total_expense) * 100 * 100) \div total_income
    ELSE 0

\* line 288: the savings rate, in hundredths of a percent.
SavingsRate(total_income, total_expense) ==
    IF total_income > 0
    THEN RoundDiv((total_income - total_expense) * 100 * 100, total_income)
    ELSE 0

\* The summary returned by aggregate_user_transactions (the fields read by
\* the endpoint and by the mock fallback).
AggregateUserTransactions(docs, user_id, start_date, end_date, category) ==
    LET matched == {d \in docs :
                       MatchFilter(d, user_id, start_date, end_date, category)}
        category_results == SortByTotalDesc(GroupRows(matched))
        total_income ==
            SumField(SelectSeq(category_results, LAMBDA c : c.type = "income"),
                     "total")
        total_expense ==
            Abs(SumField(SelectSeq(category_results,
                                   LAMBDA c : c.type = "expense"), "total"))
    IN  [total_income |-> total_income,
         total_expense |-> total_expense,
         net_cash_flow |-> total_income - total_expense,
         savings_rate |-> SavingsRate(total_income, total_expense),
         total_transactions |-> SumField(category_results, "count"),
         expense_by_category |-> ExpenseByCategory(category_results)]

----------------------------------------------------------------------------
(* generate_ai_insights_gemini and generate_mock_insights *)

\* A response text is a sequence of tokens: a code fence, the word json,
\* white space, a JSON document, or text that is no JSON.
Fence == "<fence>"       \* the three-backquote code fence marker
JsonWord == "json"
Space == " "
Junk == "Here are your insights:"
JsonDocuments == {"{insights-1}", "{insights-2}"}

RECURSIVE LStrip(_)
LStrip(text) ==
    IF text # << >> /\ Head(text) = Space THEN LStrip(Tail(text)) ELSE text

RECURSIVE RStrip(_)
RStrip(text) ==
    IF text # << >> /\ text[Len(text)] = Space
    THEN RStrip(SubSeq(text, 1, Len(text) - 1))
    ELSE text

\* str.strip()
Strip(text) == RStrip(LStrip(text))

StartsWith(text, prefix) ==
    Len(text) >= Len(prefix) /\ SubSeq(text, 1, Len(prefix)) = prefix

EndsWith(text, suffix) ==
    /\ Len(text) >= Len(suffix)
    /\ SubSeq(text, Len(text) - Len(suffix) + 1, Len(text)) = suffix

\* lines 406-414: strip, then drop a leading fence with the word json, a
\* leading fence and a trailing fence.
CleanMarkdown(text) ==
    LET t0 == Strip(text)
        t1 == IF StartsWith(t0, <<Fence, JsonWord>>)
              THEN SubSeq(t0, 3, Len(t0)) ELSE t0
        t2 == IF StartsWith(t1, <<Fence>>) THEN Tail(t1) ELSE t1
    IN  IF EndsWith(t2, <<Fence>>) THEN SubSeq(t2, 1, Len(t2) - 1) ELSE t2

\* line 417: json.loads(response_text.strip()).
JsonLoads(text) ==
    LET t == Strip(text)
    IN  IF Len(t) = 1 /\ t[1] \in JsonDocuments
        THEN [ok |-> TRUE, value |-> t[1]]
        ELSE [ok |-> FALSE, value |-> None]

\* line 443: 8 if savings_rate > 30 else 6 if savings_rate > 15 else 4.
HealthScore(savings_rate) ==
    IF savings_rate > 30 * 100 THEN 8
    ELSE IF savings_rate > 15 * 100 THEN 6
    ELSE 4

RECURSIVE MaxByTotal(_)
\* max(rows, key=total): the first row holding the largest total.
MaxByTotal(rows) ==
    IF Len(rows) = 1 THEN rows[1]
    ELSE LET rest == MaxByTotal(Tail(rows))
         IN  IF Head(rows).total >= rest.total THEN Head(rows) ELSE rest

\* lines 435-438.
HighestCategory(data) ==
    IF data.expense_by_category # << >>
    THEN LET m == MaxByTotal(data.expense_by_category)
         IN  [name |-> m.name, total |-> m.total]
    ELSE [name |-> "Unknown", total |-> 0]

\* generate_mock_insights.  Products with 0.3 and 0.2 are kept in tenths.
GenerateMockInsights(data) ==
    LET highest_category == HighestCategory(data)
        savings_rate == data.savings_rate
    IN  [source |-> "mock",
         financial_health_score |-> HealthScore(savings_rate),
         score_word |-> IF savings_rate > 30 * 100 THEN "excellent"
                        ELSE IF savings_rate > 15 * 100 THEN "good"
                        ELSE "needs improvement",
         money_leaks |->
             << [category |-> highest_category.name,
                 current_spending |-> highest_category.total,
                 potential_savings_tenths |-> highest_category.total * 3,
                 annual_impact_tenths |-> highest_category.total * 3 * 12,
                 severity |-> IF highest_category.total > 3000
                              THEN "high" ELSE "medium"] >>,
         action_plan |->
             << [title |-> "Review highest expense",
                 focus |-> highest_category.name,
                 savings_tenths |-> highest_category.total * 2] >>,
         priority_alert |-> IF savings_rate > 10 * 100 THEN None
                            ELSE "Savings rate below 10%",
         monthly_goal |->
             [target_savings_tenths |-> data.total_income * 3,
              current_savings |-> data.net_cash_flow]]

\* What the generation backend does with one request: it raises an error
\* with a description, or returns a response with a text.
Raises(description) == [raises |-> TRUE, error |-> description, text |-> << >>]
Returns(text) == [raises |-> FALSE, error |-> << >>, text |-> text]

ResponseTexts ==
    { <<"{insights-1}">>,
      <<Fence, JsonWord, Space, "{insights-2}", Space, Fence>>,
      <<Space, Fence, Space, "{insights-1}", Space, Fence, Space>>,
      <<Junk>>,
      <<Fence, JsonWord, Space, Junk, Space, Fence>>,
      <<"{insights-1}", Junk>>,
      << >> }

GenerationOutcomes ==
    {Returns(t) : t \in ResponseTexts} \cup {Raises(ErrQuota), Raises(ErrInternal)}

NoInsights == [source |-> "none"]

\* A compiler that lets a parse failure escape as an error.
GenerateAiInsightsGeminiNoFallback(data, outcome) ==
    IF outcome.raises
    THEN [raised |-> TRUE, insights |-> NoInsights,
          model |-> "gemini-2.5-flash-lite"]
    ELSE LET parsed == JsonLoads(CleanMarkdown(outcome.text))
         IN  IF parsed.ok
             THEN [raised |-> FALSE,
                   insights |-> [source |-> "gemini", document |-> parsed.value],
                   model |-> "gemini-2.5-flash-lite"]
             ELSE [raised |-> TRUE, insights |-> NoInsights,
                   model |-> "gemini-2.5-flash-lite"]

\* generate_ai_insights_gemini: one direct call of gemini-2.5-flash-lite
\* (lines 309, 395), then lines 405-430.
GenerateAiInsightsGemini(data, outcome) ==
    IF outcome.raises
    THEN [raised |-> TRUE, insights |-> NoInsights,
          model |-> "gemini-2.5-flash-lite"]
    ELSE LET parsed == JsonLoads(CleanMarkdown(outcome.text))
         IN  IF parsed.ok
             THEN [raised |-> FALSE,
                   insights |-> [source |-> "gemini", document |-> parsed.value],
                   model |-> "gemini-2.5-flash-lite"]
             ELSE [raised |-> FALSE, insights |-> GenerateMockInsights(data),
                   model |-> "gemini-2.5-flash-lite"]

NoSummary ==
    [total_income |-> 0, total_expense |-> 0, net_cash_flow |-> 0,
     savings_rate |-> 0, total_transactions |-> 0,
     expense_by_category |-> << >>]

NoCompileResult ==
    [called |-> FALSE, user |-> None, data |-> NoSummary,
     outcome |-> Returns(<< >>), raised |-> FALSE, insights |-> NoInsights]

\* One call of generate_ai_insights_gemini on the summary of an owner's
\* documents.
CompileCall(docs, user_id, outcome) ==
    LET data == AggregateUserTransactions(docs, user_id, 0, now, None)
        g == GenerateAiInsightsGemini(data, outcome)
    IN  /\ compile_result' = [called |-> TRUE, user |-> user_id,
                              data |-> data,
                              outcome |-> outcome, raised |-> g.raised,
                              insights |-> g.insights]
        /\ UNCHANGED <<taskVars, ledgerVars, rateVars, dispVars, insights_cache, transactions,
                       insight_result>>

CompilerNext ==
    \E docs \in SUBSET StoredTransactions, u \in Owners,
       outcome \in GenerationOutcomes :
        CompileCall(docs, u, outcome)

----------------------------------------------------------------------------
(* get_ai_insights *)

\* lines 23-27: the request bodies.  A date is << >> when the field is
\* absent and <<t>> when its ISO text parses to the instant t.
RequestBodies ==
    [start_date : {<< >>}, end_date : {<< >>, <<24 * 60 * 60>>},
     category : {None, "c_food"}]

\* datetime.date(): the calendar day of an instant.
DateOf(t) == t \div (24 * 60 * 60)

\* line 73: the first instant of the current month.  The clock of the model
\* starts at the first instant of a month and stays inside that month.
StartOfMonth(t) == 0

\* str() of an optional text inside the f-string of line 84.
StrOf(x) == IF x = None THEN "None" ELSE x

\* lines 83-85: the text that is hashed, field by field, and its digest.
\* MD5 is taken to be free of collisions: the digest stands for its text.
CacheKey(user_id, start_date, end_date, category) ==
    <<"md5", user_id, ":", DateOf(start_date), ":", DateOf(end_date), ":",
      StrOf(category)>>

NoInsightResult ==
    [kind |-> "none", user |-> None,
     body |-> [start_date |-> << >>, end_date |-> << >>, category |-> None],
     status |-> StatusOk, cached |-> FALSE,
     insights |-> NoInsights, aggregated |-> FALSE, total_transactions |-> 0,
     backend_calls |-> 0, model |-> None, backend_error |-> << >>,
     retry_minutes |-> 0, key |-> << >>, at |-> 0]

\* The guard with its threshold one transaction too low.
EnoughDataLenient(total_transactions) ==
    ~(total_transactions < MinTransactions - 1)

\* line 109: the guard lets generation run.
EnoughData(total_transactions) == ~(total_transactions < MinTransactions)

\* lines 88-92: the entry under the key is present and younger than the TTL.
CacheFresh(cache, key, t) ==
    key \in DOMAIN cache /\ t - cache[key].cached_time < CacheTtlSeconds

\* The whole handler: the new rate-limit lists, the new cache and the
\* response.  (check_rate_limit has no await, and the handler is taken as
\* one step: every datetime.now() in it reads the same instant.)
InsightHandler(reqs, cache, docs, t, user_id, body, outcome) ==
    LET rl == CheckRateLimit(reqs, user_id, t, MaxRequests, WindowMinutes)
        start_date == IF body.start_date = << >>
                      THEN StartOfMonth(t) ELSE body.start_date[1]
        end_date == IF body.end_date = << >> THEN t ELSE body.end_date[1]
        cache_key == CacheKey(user_id, start_date, end_date, body.category)
        base == [NoInsightResult EXCEPT !.user = user_id, !.body = body,
                                        !.at = t]
        data == AggregateUserTransactions(docs, user_id, start_date,
                                          end_date, body.category)
        g == GenerateAiInsightsGemini(data, outcome)
    IN  IF ~rl.accepted
        THEN [requests |-> rl.requests, cache |-> cache,
              response |-> [base EXCEPT !.kind = "rate_limited",
                                        !.status = rl.status,
                                        !.retry_minutes = rl.retry_minutes]]
        ELSE IF CacheFresh(cache, cache_key, t)
        THEN [requests |-> rl.requests, cache |-> cache,
              response |-> [base EXCEPT !.kind = "insights",
                                        !.cached = TRUE,
                                        !.insights = cache[cache_key].insights,
                                        !.key = cache_key]]
        ELSE IF ~EnoughData(data.total_transactions)
        THEN [requests |-> rl.requests, cache |-> cache,
              response |-> [base EXCEPT !.kind = "insufficient_data",
                                        !.insights = [source |-> "insufficient_data"],
                                        !.aggregated = TRUE,
                                        !.total_transactions = data.total_transactions,
                                        !.key = cache_key]]
        ELSE IF g.raised
        THEN [requests |-> rl.requests, cache |-> cache,
              response |-> [base EXCEPT !.kind = "error",
                                        !.status = StatusInsightFailed,
                                        !.aggregated = TRUE,
                                        !.total_transactions = data.total_transactions,
                                        !.backend_calls = 1,
                                        !.model = g.model,
                                        !.backend_error = outcome.error,
                                        !.key = cache_key]]
        ELSE [requests |-> rl.requests,
              cache |-> DictPut(cache, cache_key,
                                [insights |-> g.insights, cached_time |-> t]),
              response |-> [base EXCEPT !.kind = "insights",
                                        !.insights = g.insights,
                                        !.aggregated = TRUE,
                                        !.total_transactions = data.total_transactions,
                                        !.backend_calls = 1,
                                        !.model = g.model,
                                        !.key = cache_key]]

\* One request to POST /ai-insights by an authenticated owner.
GetAiInsights(user_id, body, outcome) ==
    LET h == InsightHandler(user_requests, insights_cache, transactions, now,
                            user_id, body, outcome)
    IN  /\ user_requests' = h.requests
        /\ insights_cache' = h.cache
        /\ insight_result' = h.response
        /\ UNCHANGED <<taskVars, ledgerVars, now, rate_result, dispVars, transactions, compile_result>>

\* delete_transaction (routers/transactions.py): owner-scoped delete_one.
DeleteTransaction(user_id, transaction_id) ==
    /\ \E d \in transactions : d._id = transaction_id /\ d.user_id = user_id
    /\ transactions' = {d \in transactions :
                           ~(d._id = transaction_id /\ d.user_id = user_id)}
    /\ UNCHANGED <<taskVars, ledgerVars, rateVars, dispVars, insights_cache, insight_result,
                   compile_result>>

\* The wall clock moves on between insight requests.
CacheTick(d) ==
    /\ now + d <= MaxClock
    /\ now' = now + d
    /\ UNCHANGED <<taskVars, ledgerVars, user_requests, rate_result, dispVars, insightVars>>

\* The owner whose insight requests are explored.
InsightOwners == {"u1"}

\* What the backend does during an insight request: one of two documents,
\* fenced or not, a text that is no JSON, or an error.
InsightOutcomes ==
    { Returns(<<"{insights-1}">>),
      Returns(<<Fence, JsonWord, Space, "{insights-2}", Space, Fence>>),
      Returns(<<Junk>>),
      Raises(ErrQuota) }

InsightNext ==
    \/ \E u \in InsightOwners, body \in RequestBodies,
          outcome \in InsightOutcomes : GetAiInsights(u, body, outcome)
    \/ \E d \in CacheDelays : CacheTick(d)

GuardNext ==
    \/ \E u \in InsightOwners, body \in RequestBodies,
          outcome \in InsightOutcomes : GetAiInsights(u, body, outcome)
    \/ \E u \in InsightOwners, d \in StoredTransactions :
          DeleteTransaction(u, d._id)

----------------------------------------------------------------------------
(* Requests served concurrently by the one event loop of the process.  A
   handler runs without interruption from one await that suspends it to the
   next; between two such points the handlers of other requests may run. *)

\* The requests that can be in service at the same time.
TaskSlots == {1, 2}

IdleTask == [pc |-> "idle"]

\* A slot is free when no request was served in it yet or when the request
\* served in it has been answered.
SlotFree(tasks, slot) == tasks[slot].pc \in {"idle", "done"}

\* get_ai_insights, lines 62-98: from the entry of the handler to its first
\* suspension.  check_rate_limit holds no await and runs in one piece; the
\* handler then answers (429, or the fresh cache entry) or is suspended in
\* the first query of aggregate_user_transactions (line 159).
InsightBegin(reqs, cache, t, user_id, body) ==
    LET rl == CheckRateLimit(reqs, user_id, t, MaxRequests, WindowMinutes)
        start_date == IF body.start_date = << >>
                      THEN StartOfMonth(t) ELSE body.start_date[1]
        end_date == IF body.end_date = << >> THEN t ELSE body.end_date[1]
        cache_key == CacheKey(user_id, start_date, end_date, body.category)
        base == [NoInsightResult EXCEPT !.user = user_id, !.body = body,
                                        !.at = t]
    IN  IF ~rl.accepted
        THEN [requests |-> rl.requests,
              task |-> [pc |-> "done", user |-> user_id, body |-> body,
                        start_date |-> start_date, end_date |-> end_date,
                        key |-> << >>,
                        response |-> [base EXCEPT !.kind = "rate_limited",
                                                  !.status = rl.status,
                                                  !.retry_minutes = rl.retry_minutes]]]
        ELSE IF CacheFresh(cache, cache_key, t)
        THEN [requests |-> rl.requests,
              task |-> [pc |-> "done", user |-> user_id, body |-> body,
                        start_date |-> start_date, end_date |-> end_date,
                        key |-> cache_key,
                        response |-> [base EXCEPT !.kind = "insights",
                                                  !.cached = TRUE,
                                                  !.insights = cache[cache_key].insights,
                                                  !.key = cache_key]]]
        ELSE [requests |-> rl.requests,
              task |-> [pc |-> "aggregating", user |-> user_id, body |-> body,
                        start_date |-> start_date, end_date |-> end_date,
                        key |-> cache_key, response |-> base]]

\* get_ai_insights, lines 101-130: from the return of the aggregation to the
\* answer.  generate_ai_insights_gemini calls the backend synchronously
\* (line 395), so the handler is not suspended again before it stores the
\* payload (line 123) and returns.
InsightEnd(cache, docs, t, task, outcome) ==
    LET data == AggregateUserTransactions(docs, task.user, task.start_date,
                                          task.end_date, task.body.category)
        g == GenerateAiInsightsGemini(data, outcome)
        base == task.response
    IN  IF ~EnoughData(data.total_transactions)
        THEN [cache |-> cache,
              response |-> [base EXCEPT !.kind = "insufficient_data",
                                        !.insights = [source |-> "insufficient_data"],
                                        !.aggregated = TRUE,
                                        !.total_transactions = data.total_transactions,
                                        !.key = task.key]]
        ELSE IF g.raised
        THEN [cache |-> cache,
              response |-> [base EXCEPT !.kind = "error",
                                        !.status = StatusInsightFailed,
                                        !.aggregated = TRUE,
                                        !.total_transactions = data.total_transactions,
                                        !.backend_calls = 1,
                                        !.model = g.model,
                                        !.backend_error = outcome.error,
                                        !.key = task.key]]
        ELSE [cache |-> DictPut(cache, task.key,
                                [insights |-> g.insights, cached_time |-> t]),
              response |-> [base EXCEPT !.kind = "insights",
                                        !.insights = g.insights,
                                        !.aggregated = TRUE,
                                        !.total_transactions = data.total_transactions,
                                        !.backend_calls = 1,
                                        !.model = g.model,
                                        !.key = task.key]]

\* A request to POST /ai-insights enters the handler in a free slot.
InsightStart(slot, user_id, body) ==
    /\ SlotFree(insight_tasks, slot)
    /\ LET b == InsightBegin(user_requests, insights_cache, now, user_id, body)
       IN  /\ user_requests' = b.requests
           /\ insight_tasks' = [insight_tasks EXCEPT ![slot] = b.task]
    /\ UNCHANGED <<ledgerVars, chat_tasks, now, rate_result, dispVars,
                   insightVars>>

\* The aggregation of a suspended request returns and the handler runs to
\* its answer.
InsightResume(slot, outcome) ==
    /\ insight_tasks[slot].pc = "aggregating"
    /\ LET f == InsightEnd(insights_cache, transactions, now,
                           insight_tasks[slot], outcome)
       IN  /\ insights_cache' = f.cache
           /\ insight_tasks' =
                  [insight_tasks EXCEPT ![slot] =
                      [@ EXCEPT !.pc = "done", !.response = f.response]]
    /\ UNCHANGED <<ledgerVars, chat_tasks, rateVars, dispVars, transactions,
                   insight_result, compile_result>>

\* The bodies of the concurrent requests: no category filter, and a category
\* filter whose text is "None".
TaskBodies ==
    [start_date : {<< >>}, end_date : {<< >>}, category : {None, "None"}]

TaskOutcomes == {Returns(<<"{insights-1}">>), Raises(ErrQuota)}

TaskNext ==
    \/ \E slot \in TaskSlots, u \in Owners, body \in TaskBodies :
          InsightStart(slot, u, body)
    \/ \E slot \in TaskSlots, outcome \in TaskOutcomes :
          InsightResume(slot, outcome)
    \/ CacheTick(CacheTtlSeconds)

----------------------------------------------------------------------------
(* generate_text (routers/gemini.py) served concurrently *)

\* The callers of the chat endpoint: a guest and an authenticated owner.
Guest == "guest"

ChatCallers == {Guest, "u1"}

\* What the backends do during one call of the dispatcher by a chat request.
ChatBehaviours(index) ==
    [index..(Len(Models) - 1) -> {Answers, ErrQuota, ErrInternal}]

\* line 245 and line 281: the name under the current index of the manager.
CurrentModelName(index) == Models[index + 1].name

\* The task of a request whose call of the dispatcher raised.
ChatFailed(caller, prompt, r) ==
    [pc |-> "done", caller |-> caller, prompt |-> prompt,
     status |-> r.status, reply_model |-> None, model_used |-> None]

\* lines 229-257: a request enters the handler.  A guest is answered without
\* any suspension (lines 241-252); the handler of an authenticated owner is
\* suspended saving the prompt (line 257).
ChatStart(slot, caller, prompt, behaviour) ==
    /\ SlotFree(chat_tasks, slot)
    /\ IF caller = Guest
       THEN LET r == FallbackLoop(current_model_index, 0, << >>, << >>,
                                  prompt, << >>, behaviour)
            IN  /\ current_model_index' = r.index
                /\ chat_tasks' =
                       [chat_tasks EXCEPT ![slot] =
                           IF r.status = StatusOk
                           THEN [pc |-> "done", caller |-> caller,
                                 prompt |-> prompt, status |-> StatusOk,
                                 reply_model |-> r.response.model,
                                 model_used |-> CurrentModelName(r.index)]
                           ELSE ChatFailed(caller, prompt, r)]
       ELSE /\ current_model_index' = current_model_index
            /\ chat_tasks' =
                   [chat_tasks EXCEPT ![slot] =
                       [pc |-> "save_prompt", caller |-> caller,
                        prompt |-> prompt, status |-> StatusOk,
                        reply_model |-> None, model_used |-> None]]
    /\ UNCHANGED <<ledgerVars, insight_tasks, rateVars, dispatch_result,
                   insightVars>>

\* line 257 returns and the handler is suspended reading the history
\* (line 260).
ChatPromptSaved(slot) ==
    /\ chat_tasks[slot].pc = "save_prompt"
    /\ chat_tasks' = [chat_tasks EXCEPT ![slot].pc = "history"]
    /\ UNCHANGED <<ledgerVars, insight_tasks, rateVars, dispVars, insightVars>>

\* lines 260-278: the history returns, the dispatcher is called with it and,
\* when it answers, the handler is suspended saving the reply (line 278).
ChatGenerate(slot, chat_history, behaviour) ==
    /\ chat_tasks[slot].pc = "history"
    /\ LET r == FallbackLoop(current_model_index, 0, << >>, << >>,
                             chat_tasks[slot].prompt, chat_history, behaviour)
       IN  /\ current_model_index' = r.index
           /\ chat_tasks' =
                  [chat_tasks EXCEPT ![slot] =
                      IF r.status = StatusOk
                      THEN [@ EXCEPT !.pc = "save_reply",
                                     !.reply_model = r.response.model]
                      ELSE ChatFailed(@.caller, @.prompt, r)]
    /\ UNCHANGED <<ledgerVars, insight_tasks, rateVars, dispatch_result,
                   insightVars>>

\* lines 278-288: the reply is saved, the handler reads the current index of
\* the manager and answers.
ChatFinish(slot) ==
    /\ chat_tasks[slot].pc = "save_reply"
    /\ chat_tasks' =
           [chat_tasks EXCEPT ![slot] =
               [@ EXCEPT !.pc = "done",
                         !.model_used = CurrentModelName(current_model_index)]]
    /\ UNCHANGED <<ledgerVars, insight_tasks, rateVars, dispVars, insightVars>>

ChatPrompts == {"p1"}

ChatNext ==
    \/ \E slot \in TaskSlots, caller \in ChatCallers, prompt \in ChatPrompts :
          \E behaviour \in ChatBehaviours(current_model_index) :
              ChatStart(slot, caller, prompt, behaviour)
    \/ \E slot \in TaskSlots : ChatPromptSaved(slot)
    \/ \E slot \in TaskSlots, h \in Histories :
          \E behaviour \in ChatBehaviours(current_model_index) :
              ChatGenerate(slot, h, behaviour)
    \/ \E slot \in TaskSlots : ChatFinish(slot)

\* No report request, no stitched page and no summary request yet.
NoListResult == [called |-> FALSE]

NoPageSession == [active |-> FALSE]

NoSummaryResult == [called |-> FALSE]

Init ==
    /\ insight_tasks = [slot \in TaskSlots |-> IdleTask]
    /\ chat_tasks = [slot \in TaskSlots |-> IdleTask]
    /\ list_result = NoListResult
    /\ page_session = NoPageSession
    /\ summary_result = NoSummaryResult
    /\ now = 0
    /\ user_requests = << >>
    /\ rate_result = NoRateResult
    /\ current_model_index = 0
    /\ dispatch_result = NoDispatchResult
    /\ insights_cache = << >>
    /\ transactions = StoredTransactions
    /\ insight_result = NoInsightResult
    /\ compile_result = NoCompileResult

RateNext ==
    \/ \E u \in Owners : RateLimitCall(u)
    \/ \E d \in RateDelays : RateTick(d)

SpecRate == Init /\ [][RateNext]_vars

SpecDisp == Init /\ [][DispNext]_vars

SpecCompiler == Init /\ [][CompilerNext]_vars

SpecInsight == Init /\ [][InsightNext]_vars

SpecGuard == Init /\ [][GuardNext]_vars

SpecTasks == Init /\ [][TaskNext]_vars

SpecChat == Init /\ [][ChatNext]_vars

----------------------------------------------------------------------------
(* Properties of the rate limiter *)

\* The timestamps of a list that lie inside the rolling window ending at t.
InsideWindow(list, t) ==
    SelectSeq(list, LAMBDA x : t - x < WindowMinutes * SecondsPerMinute)

\* C1: for any owner, a request that finds 9 earlier requests inside the
\* rolling 60-minute window (the 10th) is accepted, and a request that finds
\* 10 (the 11th) is rejected with status 429 and a retry-after value that is
\* strictly positive, at whatever instant inside the window it arrives.
C1_EleventhRejectedWithPositiveRetry ==
    rate_result.user # None =>
        LET inside == Len(InsideWindow(rate_result.before, rate_result.at))
        IN  /\ inside = MaxRequests - 1 => rate_result.accepted
            /\ inside >= MaxRequests =>
                   /\ ~rate_result.accepted
                   /\ rate_result.status = StatusRateLimited
                   /\ rate_result.retry_minutes > 0

\* C7: a check that rejects the request appends nothing: after it the owner's
\* list is exactly the unexpired timestamps it held before the check, so its
\* oldest entry (which decides when the owner is accepted again) is unchanged,
\* and no other owner's list changes.
C7_RejectedCheckConsumesNoSlot ==
    [][\A u \in Owners :
          (RateLimitCall(u) /\ ~rate_result'.accepted) =>
              /\ user_requests'[u] = InsideWindow(RequestsOf(user_requests, u), now)
              /\ Len(user_requests'[u]) = MaxRequests
              /\ user_requests'[u][1] = RequestsOf(user_requests, u)[1]
              /\ \A o \in (DOMAIN user_requests) \ {u} :
                     user_requests'[o] = user_requests[o]]_vars

\* C7 witness: an owner has been rejected, half a minute before the oldest
\* of its ten counted requests leaves the window.
C7_Witness ==
    /\ rate_result.user # None
    /\ ~rate_result.accepted
    /\ rate_result.at > 0
    /\ Len(user_requests[rate_result.user]) = MaxRequests

----------------------------------------------------------------------------
(* Properties of the model fallback dispatcher *)

\* The error descriptions of the model that carry a capacity/quota signal
\* (429, 404, quota, rate limit, resource exhausted, in any letter case).
QuotaSignalErrors ==
    {Err429, Err404, ErrQuota, ErrRateLimit, ErrResourceExhausted}

\* The last call made every backend it tried raise.
EveryCallRaised(r) == r.calls # << >> /\ Len(r.raised) = Len(r.calls)

\* C3: the current-backend index is sticky: no call ever decreases or resets
\* it, the first attempt of every call is made on the backend the index
\* names, and when the primary raises a quota-signal error and the secondary
\* answers, the call returns the secondary's response and leaves the index on
\* the secondary.
C3_StickyIndex ==
    [][/\ current_model_index' >= current_model_index
       /\ dispatch_result' # dispatch_result =>
            LET r == dispatch_result'
            IN  /\ r.calls[1].model = Models[current_model_index + 1].name
                /\ ( /\ current_model_index = 0
                     /\ Len(r.raised) = 1
                     /\ r.raised[1] \in QuotaSignalErrors
                     /\ Len(r.calls) = 2 )
                   => /\ r.status = StatusOk
                      /\ r.response.model = Models[2].name
                      /\ current_model_index' = 1]_vars

\* C3 witness: after the index has advanced to the secondary, a later call
\* made its first and only attempt on the secondary and was answered by it.
C3_Witness ==
    /\ dispatch_result.started_at = 1
    /\ current_model_index = 1
    /\ Len(dispatch_result.calls) = 1
    /\ dispatch_result.calls[1].model = "gemini-2.0-flash"
    /\ dispatch_result.response.model = "gemini-2.0-flash"

\* The k-th call of a result repeats the request on the backend after the
\* one that was current when the call began plus k - 1.
RetriedOnNext(r, start, k) ==
    /\ Len(r.calls) > k
    /\ r.calls[k + 1].model = Models[start + k + 1].name
    /\ r.calls[k + 1].prompt = r.calls[k].prompt
    /\ r.calls[k + 1].history = r.calls[k].history
    /\ r.calls[k + 1].api = r.calls[k].api

\* An error other than a quota signal ends the call at once.
FailsImmediately(r, k) ==
    /\ k = Len(r.calls)
    /\ r.status = StatusBackendError
    /\ r.detail = DetailError(r.raised[k])

\* C4 as stated: every quota-signal error advances the index by exactly one
\* and retries the same prompt and history on the next backend; any other
\* error fails the call immediately, index unchanged, no further attempt.
C4_QuotaErrorAlwaysAdvances ==
    [][dispatch_result' # dispatch_result =>
         LET r == dispatch_result'
             quota == {k \in 1..Len(r.raised) : r.raised[k] \in QuotaSignalErrors}
         IN  /\ \A k \in quota : RetriedOnNext(r, current_model_index, k)
             /\ current_model_index' = current_model_index + Cardinality(quota)
             /\ \A k \in (1..Len(r.raised)) \ quota :
                    FailsImmediately(r, k)]_vars

\* C4 amended: a quota-signal error on a backend that is not the last of the
\* list advances the index by exactly one and retries the same prompt and
\* history on the next backend; a quota-signal error on the last backend
\* ends the call with the index unchanged; any other error fails the call
\* immediately, index unchanged, no further attempt.
C4_QuotaErrorAdvancesUnlessLast ==
    [][dispatch_result' # dispatch_result =>
         LET r == dispatch_result'
             last == Len(Models) - 1
             quota == {k \in 1..Len(r.raised) : r.raised[k] \in QuotaSignalErrors}
             advancing == {k \in quota : current_model_index + k - 1 < last}
         IN  /\ \A k \in advancing : RetriedOnNext(r, current_model_index, k)
             /\ \A k \in quota \ advancing :
                    /\ k = Len(r.calls)
                    /\ r.detail = DetailAllRateLimited
             /\ current_model_index' = current_model_index + Cardinality(advancing)
             /\ \A k \in (1..Len(r.raised)) \ quota :
                    FailsImmediately(r, k)]_vars

\* C4 witness: the primary raised a quota-signal error, the request was
\* retried on the secondary, which raised another error and ended the call.
C4_Witness ==
    /\ dispatch_result.started_at = 0
    /\ dispatch_result.raised = <<ErrQuota, ErrInternal>>
    /\ Len(dispatch_result.calls) = 2
    /\ current_model_index = 1
    /\ dispatch_result.status = StatusBackendError

\* C5: when every backend from the current index to the end of the list
\* raises a quota-signal error, the call fails as all-backends-exhausted, a
\* service-unavailable (503) rejection whose status differs from the
\* rate limiter's rejection, and the index stays on the last backend.
C5_ExhaustedIsDistinctFromRateLimited ==
    LET r == dispatch_result
    IN  ( /\ EveryCallRaised(r)
          /\ \A k \in 1..Len(r.raised) : r.raised[k] \in QuotaSignalErrors )
        => /\ r.detail = DetailAllRateLimited
           /\ current_model_index = Len(Models) - 1
           /\ current_model_index \in 0..(Len(Models) - 1)
           /\ r.status = 503
           /\ r.status # StatusRateLimited

\* The part of C5 that the dispatcher does satisfy (sanity check).
C5_ExhaustedKeepsLastIndex ==
    LET r == dispatch_result
    IN  ( /\ EveryCallRaised(r)
          /\ \A k \in 1..Len(r.raised) : r.raised[k] \in QuotaSignalErrors )
        => /\ r.detail = DetailAllRateLimited
           /\ current_model_index = Len(Models) - 1

----------------------------------------------------------------------------
(* Properties of the insight endpoint *)

\* A step in which an insight request was served (an accepted request
\* appends a timestamp; a rejected one changes at most the response).
IsInsightRequest ==
    user_requests' # user_requests \/ insight_result' # insight_result

\* The fingerprint of the request a response answers.
RequestKey(r, t) ==
    CacheKey(r.user,
             IF r.body.start_date = << >> THEN StartOfMonth(t)
             ELSE r.body.start_date[1],
             IF r.body.end_date = << >> THEN t ELSE r.body.end_date[1],
             r.body.category)

\* The number of stored transactions of the request's owner that lie in the
\* requested window and carry the requested category.
CountInWindow(r, t) ==
    LET from == IF r.body.start_date = << >> THEN StartOfMonth(t)
                ELSE r.body.start_date[1]
        to == IF r.body.end_date = << >> THEN t ELSE r.body.end_date[1]
    IN  Cardinality({d \in transactions :
                        /\ d.user_id = r.user
                        /\ from <= d.date /\ d.date <= to
                        /\ (r.body.category \notin {None, ""}
                              => d.category_id = r.body.category)})

\* C2: a request whose fingerprint was stored by an earlier identical request
\* is answered from the cache (cached, same payload, no aggregation, no
\* backend call) when it arrives less than 4 hours after the store, and is a
\* miss (aggregation and generation run again) when it arrives 4 hours or
\* more after the store.
C2_IdenticalRequestServedFromCache ==
    [][IsInsightRequest =>
         LET r == insight_result'
             key == RequestKey(r, now)
         IN  key \in DOMAIN insights_cache =>
                 IF now - insights_cache[key].cached_time < 4 * 60 * 60
                 THEN /\ r.kind = "insights"
                      /\ r.cached
                      /\ r.insights = insights_cache[key].insights
                      /\ ~r.aggregated
                      /\ r.backend_calls = 0
                 ELSE /\ ~r.cached
                      /\ r.aggregated
                      /\ r.backend_calls = 1]_vars

\* C6: rate limiting gates generation only: a request answered from a fresh
\* cache entry appends no timestamp to the owner's list, and a request whose
\* fingerprint has a fresh cache entry is never rejected as rate-limited.
C6_CacheHitsAreNotRateLimited ==
    [][IsInsightRequest =>
         LET r == insight_result'
             key == RequestKey(r, now)
         IN  /\ r.cached => user_requests' = user_requests
             /\ ( /\ key \in DOMAIN insights_cache
                  /\ now - insights_cache[key].cached_time < 4 * 60 * 60 )
                => r.kind # "rate_limited"]_vars

\* C8: a request that reaches aggregation and finds fewer than 3
\* transactions in its window returns the insufficient_data result, calls no
\* backend and leaves the cache as it was; a backend is called only when the
\* window holds at least 3 transactions.
C8_InsufficientDataSkipsGeneration ==
    [][IsInsightRequest =>
         LET r == insight_result'
         IN  /\ (r.aggregated /\ CountInWindow(r, now) < 3) =>
                   /\ r.kind = "insufficient_data"
                   /\ r.insights = [source |-> "insufficient_data"]
                   /\ r.status = StatusOk
                   /\ r.backend_calls = 0
                   /\ insights_cache' = insights_cache
             /\ r.backend_calls > 0 => CountInWindow(r, now) >= 3]_vars

\* C8 witness: a request found two transactions in its window and was
\* answered with insufficient_data.
C8_Witness ==
    /\ insight_result.kind = "insufficient_data"
    /\ insight_result.aggregated
    /\ insight_result.total_transactions = 2
    /\ insight_result.body.category = None
    /\ insight_result.backend_calls = 0

\* C10: every request that passes the rate limit and whose window holds at
\* least 3 transactions is answered with a structured insight payload,
\* whatever the backend does: never with an error, never with nothing.
C10_GenerationAlwaysDegradesToPayload ==
    [][IsInsightRequest =>
         LET r == insight_result'
         IN  (r.kind # "rate_limited" /\ CountInWindow(r, now) >= 3) =>
                 /\ r.status = StatusOk
                 /\ r.kind = "insights"
                 /\ r.insights.source \in {"gemini", "mock"}]_vars

----------------------------------------------------------------------------
(* Properties of the insight compiler *)

\* The response texts of the model that are no JSON document once the fence
\* markers and the surrounding white space are removed.
UnparsableTexts ==
    { <<Junk>>,
      <<Fence, JsonWord, Space, Junk, Space, Fence>>,
      <<"{insights-1}", Junk>>,
      << >> }

\* C9: when the backend returns a text that does not parse as JSON, the
\* compiler raises nothing and returns the fallback payload, computed from
\* the summary alone: score 8 if savings_rate > 30, 6 if > 15, else 4, and as
\* money leak the expense category with the highest total (Unknown, 0 when
\* the summary has no expense category).
C9_ParseFailureYieldsMockPayload ==
    LET c == compile_result
        rows == c.data.expense_by_category
    IN  (c.called /\ ~c.outcome.raises /\ c.outcome.text \in UnparsableTexts) =>
            /\ ~c.raised
            /\ c.insights.source = "mock"
            /\ c.insights = GenerateMockInsights(c.data)
            /\ c.insights.financial_health_score =
                   (IF c.data.savings_rate > 3000 THEN 8
                    ELSE IF c.data.savings_rate > 1500 THEN 6 ELSE 4)
            /\ LET leak == c.insights.money_leaks[1]
               IN  IF rows = << >>
                   THEN leak.category = "Unknown" /\ leak.current_spending = 0
                   ELSE /\ \E i \in 1..Len(rows) :
                              /\ rows[i].name = leak.category
                              /\ rows[i].total = leak.current_spending
                        /\ \A i \in 1..Len(rows) :
                              rows[i].total <= leak.current_spending
            /\ c.insights.monthly_goal.current_savings = c.data.net_cash_flow

\* C9 witness: a fenced text that is no JSON was answered with the mock
\* payload of a summary whose savings rate is exactly 30 percent (score 6)
\* and whose largest expense category is Food.
C9_Witness ==
    /\ compile_result.called
    /\ compile_result.outcome.text = <<Fence, JsonWord, Space, Junk, Space, Fence>>
    /\ compile_result.data.savings_rate = 3000
    /\ compile_result.insights.source = "mock"
    /\ compile_result.insights.financial_health_score = 6
    /\ compile_result.insights.money_leaks[1].category = "Food"

----------------------------------------------------------------------------
(* Properties of the path from the insight compiler to the backends *)

\* C11: every backend call of an insight request goes through the model
\* fallback dispatcher: the backend called is the dispatcher's current one,
\* and a capacity/quota failure of that backend advances the dispatcher to
\* the next backend of the list and does not fail the request.
C11_InsightCallsGoThroughDispatcher ==
    [][IsInsightRequest =>
         LET r == insight_result'
         IN  r.backend_calls > 0 =>
                 /\ r.model = Models[current_model_index + 1].name
                 /\ IsRateLimitError(r.backend_error) =>
                        /\ current_model_index' = current_model_index + 1
                        /\ r.kind # "error"]_vars

----------------------------------------------------------------------------
(* The calendar: an instant is a number of seconds since 2024-01-01 00:00 *)

SecondsPerDay == 24 * 60 * 60

IsLeap(y) == (y % 4 = 0 /\ y % 100 # 0) \/ y % 400 = 0

DaysInYear(y) == IF IsLeap(y) THEN 366 ELSE 365

DaysInMonth(y, m) ==
    CASE m = 2 -> IF IsLeap(y) THEN 29 ELSE 28
      [] m \in {4, 6, 9, 11} -> 30
      [] OTHER -> 31

RECURSIVE DaysBeforeYear(_)
DaysBeforeYear(y) ==
    IF y = 2024 THEN 0
    ELSE IF y > 2024 THEN DaysInYear(y - 1) + DaysBeforeYear(y - 1)
    ELSE DaysBeforeYear(y + 1) - DaysInYear(y)

RECURSIVE DaysBeforeMonth(_, _)
DaysBeforeMonth(y, m) ==
    IF m <= 1 THEN 0 ELSE DaysInMonth(y, m - 1) + DaysBeforeMonth(y, m - 1)

\* datetime(y, m, d): midnight at the start of the day.
DateTime(y, m, d) ==
    (DaysBeforeYear(y) + DaysBeforeMonth(y, m) + (d - 1)) * SecondsPerDay

\* datetime.fromisoformat of a date text YYYY-MM-DD, held as <<y, m, d>>.
FromIsoformat(text) == DateTime(text[1], text[2], text[3])

\* datetime.fromisoformat raises ValueError on a text that names no day of
\* the calendar (month 13, February 30).
IsoformatRaises(text) ==
    ~(/\ text[1] \in 1..9999
      /\ text[2] \in 1..12
      /\ text[3] \in 1..DaysInMonth(text[1], text[2]))

\* The response to a request whose handler raised an exception that nothing
\* catches: the framework answers 500 Internal Server Error.
StatusInternalError == 500

----------------------------------------------------------------------------
(* get_my_transactions (routers/transactions.py) *)

\* lines 51-58: building the match conditions parses the dates that are given.
ListDatesRaise(q) ==
    \/ q.date_from # << >> /\ IsoformatRaises(q.date_from)
    \/ q.date_to # << >> /\ IsoformatRaises(q.date_to)

\* lines 42-65: the match conditions.  An optional date is << >> when the
\* parameter is absent.  The search parameter is left absent.
ListMatch(d, user_id, q) ==
    /\ d.user_id = user_id
    /\ Truthy(q.type) => d.type = q.type
    /\ Truthy(q.category_id) => d.category_id = q.category_id
    /\ q.date_from # << >> => FromIsoformat(q.date_from) <= d.date
    /\ q.date_to # << >> => d.date <= FromIsoformat(q.date_to) + SecondsPerDay

\* lines 75-76
SortOrder(order) == IF order = "desc" THEN -1 ELSE 1

SortField(sort_by) ==
    IF sort_by \in {"date", "amount", "name"} THEN sort_by ELSE "date"

\* The stored names in the order in which the database compares strings.
NameOrder == <<"Jollibee", "Meralco", "Payroll", "Sari-sari">>

NameRank(name) == CHOOSE i \in 1..Len(NameOrder) : NameOrder[i] = name

SortKey(d, sort_field) ==
    CASE sort_field = "date" -> d.date
      [] sort_field = "amount" -> d.amount
      [] sort_field = "name" -> NameRank(d.name)

\* Row a stands strictly before row b under {"$sort": {field: order}}.
Before(a, b, sort_field, sort_order) ==
    IF sort_order = 1
    THEN SortKey(a, sort_field) < SortKey(b, sort_field)
    ELSE SortKey(a, sort_field) > SortKey(b, sort_field)

\* The orders in which the matched documents can reach the $sort stage: the
\* database fixes no order among documents, and line 183 sorts on one field
\* only, so rows that tie on it stay in the order in which they arrived.
Arrivals(docs) ==
    {f \in [1..Cardinality(docs) -> docs] :
        \A i, j \in 1..Cardinality(docs) : i # j => f[i] # f[j]}

InsertRow(sorted, row, sort_field, sort_order) ==
    LET k == Cardinality({i \in 1..Len(sorted) :
                             ~Before(row, sorted[i], sort_field, sort_order)})
    IN  SubSeq(sorted, 1, k) \o <<row>> \o SubSeq(sorted, k + 1, Len(sorted))

RECURSIVE SortRows(_, _, _)
SortRows(arrival, sort_field, sort_order) ==
    IF arrival = << >> THEN << >>
    ELSE InsertRow(SortRows(SubSeq(arrival, 1, Len(arrival) - 1),
                            sort_field, sort_order),
                   arrival[Len(arrival)], sort_field, sort_order)

\* A pagination that skips one page too many.
PaginateSkipPage(sorted, page, limit) ==
    LET skip == page * limit
        last == IF skip + limit < Len(sorted) THEN skip + limit ELSE Len(sorted)
    IN  IF skip >= Len(sorted) THEN << >> ELSE SubSeq(sorted, skip + 1, last)

\* lines 204-212: $skip then $limit.
Paginate(sorted, page, limit) ==
    LET skip == (page - 1) * limit
        last == IF skip + limit < Len(sorted) THEN skip + limit ELSE Len(sorted)
    IN  IF skip >= Len(sorted) THEN << >> ELSE SubSeq(sorted, skip + 1, last)

\* A stored document that has no category_id field (main.py inserts such
\* documents).
Missing == "Missing_"

\* The identifier texts that are stored as category_id and group_id, each
\* held as its length and the set of its characters: "food" and a text of 23
\* hexadecimal digits are texts that are no object id.
IdText(id) ==
    CASE id = "c_food" -> [length |-> 24, characters |-> {"a"}]
      [] id = "c_bills" -> [length |-> 24, characters |-> {"b"}]
      [] id = "c_salary" -> [length |-> 24, characters |-> {"c"}]
      [] id = "c_gone" -> [length |-> 24, characters |-> {"d"}]
      [] id = "g_daily" -> [length |-> 24, characters |-> {"e"}]
      [] id = "g_gone" -> [length |-> 24, characters |-> {"f"}]
      [] id = "c_short" -> [length |-> 23, characters |-> {"a"}]
      [] id = "food" -> [length |-> 4, characters |-> {"f", "o", "d"}]
      [] id = "" -> [length |-> 0, characters |-> {}]

HexDigits ==
    {"0", "1", "2", "3", "4", "5", "6", "7", "8", "9",
     "a", "b", "c", "d", "e", "f", "A", "B", "C", "D", "E", "F"}

\* $toObjectId: null for a null or missing value, the object id for a text of
\* 24 hexadecimal digits, and an error that fails the aggregation otherwise.
ToObjectId(x) ==
    IF x \in {None, Missing} THEN [raised |-> FALSE, value |-> None]
    ELSE LET text == IdText(x)
         IN  IF text.length = 24 /\ text.characters \subseteq HexDigits
             THEN [raised |-> FALSE, value |-> x]
             ELSE [raised |-> TRUE, value |-> None]

\* db.categories and db.category_groups.  The group of Bills does not exist.
Categories ==
    { [_id |-> "c_food", category_name |-> "Food", icon |-> "utensils",
       type |-> "expense", group_id |-> "g_daily"],
      [_id |-> "c_bills", category_name |-> "Bills", icon |-> "bolt",
       type |-> "expense", group_id |-> "g_gone"],
      [_id |-> "c_salary", category_name |-> "Salary", icon |-> "coins",
       type |-> "income", group_id |-> "g_daily"] }

CategoryGroups == { [_id |-> "g_daily", group_name |-> "Daily"] }

\* $lookup on _id followed by $unwind with preserveNullAndEmptyArrays: the
\* joined document, or << >> when the key is null or matches nothing.
Lookup(collection, object_id) ==
    IF object_id # None /\ \E c \in collection : c._id = object_id
    THEN <<CHOOSE c \in collection : c._id = object_id>>
    ELSE << >>

\* lines 83-140: the joins of a document, which depend on its category_id
\* alone: raised when a $toObjectId stage fails, and the joined category and
\* group, each << >> when there is none.
Join(category_id) ==
    LET category_object_id ==
            IF category_id # "" /\ category_id # None
            THEN ToObjectId(category_id)
            ELSE [raised |-> FALSE, value |-> None]
        category == Lookup(Categories, category_object_id.value)
        group_object_id ==
            IF category # << >> THEN ToObjectId(category[1].group_id)
            ELSE [raised |-> FALSE, value |-> None]
        group == Lookup(CategoryGroups, group_object_id.value)
    IN  [category_id |-> category_id,
         raised |-> category_object_id.raised \/ group_object_id.raised,
         category |-> category, group |-> group]

\* The joins of every value a stored category_id takes.
Joins ==
    {Join(category_id) :
        category_id \in {None, Missing, "", "food", "c_short", "c_gone",
                         "c_food", "c_bills", "c_salary"}}

\* The joins of one matched document.
JoinOf(d) == CHOOSE join \in Joins : join.category_id = d.category_id

\* lines 83-140: the aggregation fails on this document.
EnrichRaises(d) == JoinOf(d).raised

\* lines 158-178: the category_details the $project stage gives a document.
CategoryDetails(d) ==
    LET j == JoinOf(d)
    IN  [id |-> IF d.category_id \in {None, Missing} THEN ""
                ELSE d.category_id,
         name |-> IF j.category # << >> THEN j.category[1].category_name
                  ELSE "Others",
         icon |-> IF j.category # << >> THEN j.category[1].icon ELSE "",
         type |-> IF j.category # << >> THEN j.category[1].type ELSE d.type,
         group_id |-> IF j.category # << >> THEN j.category[1].group_id
                      ELSE "",
         group_name |-> IF j.group # << >> THEN j.group[1].group_name
                        ELSE "Others"]

\* The category_details of the rows of a response, in their order.
DetailsOf(rows) == [i \in 1..Len(rows) |-> CategoryDetails(rows[i])]

NoPagination ==
    [page |-> 0, limit |-> << >>, total |-> 0, total_pages |-> 0,
     has_next |-> FALSE, has_prev |-> FALSE]

\* The response when the handler raised: no rows and no pagination.
ListFailure ==
    [status |-> StatusInternalError, transactions |-> << >>,
     category_details |-> << >>, pagination |-> NoPagination]

\* A response whose total counts every document of the caller, whatever the
\* filters of the query.
ListResponseCountsUnfiltered(docs, user_id, q, arrival) ==
    LET sorted == SortRows(arrival, SortField(q.sort_by), SortOrder(q.order))
        everything == Cardinality({d \in docs : d.user_id = user_id})
    IN  IF ListDatesRaise(q) THEN ListFailure
        ELSE IF \E i \in 1..Len(sorted) : EnrichRaises(sorted[i])
        THEN ListFailure
        ELSE IF q.limit = << >>
        THEN [status |-> StatusOk, transactions |-> sorted,
              category_details |-> DetailsOf(sorted),
              pagination |-> [page |-> 1, limit |-> << >>,
                              total |-> everything, total_pages |-> 1,
                              has_next |-> FALSE, has_prev |-> FALSE]]
        ELSE LET limit == q.limit[1]
                 total_count == everything
                 rows == Paginate(sorted, q.page, limit)
             IN  [status |-> StatusOk, transactions |-> rows,
                  category_details |-> DetailsOf(rows),
                  pagination |-> [page |-> q.page, limit |-> <<limit>>,
                                  total |-> total_count,
                                  total_pages |-> (total_count + limit - 1) \div limit,
                                  has_next |-> q.page * limit < total_count,
                                  has_prev |-> q.page > 1]]

\* lines 39-234: the response.  The limit is << >> when absent.  The matched
\* documents are enriched before they are sorted, so one document whose
\* enrichment raises fails the request whatever the page; the rows and the
\* total both come out of the one aggregation (the $facet of lines 206-218).
ListResponse(docs, user_id, q, arrival) ==
    LET sorted == SortRows(arrival, SortField(q.sort_by), SortOrder(q.order))
    IN  IF ListDatesRaise(q) THEN ListFailure
        ELSE IF \E i \in 1..Len(sorted) : EnrichRaises(sorted[i])
        THEN ListFailure
        ELSE IF q.limit = << >>
        THEN [status |-> StatusOk, transactions |-> sorted,
              category_details |-> DetailsOf(sorted),
              pagination |-> [page |-> 1, limit |-> << >>,
                              total |-> Len(sorted), total_pages |-> 1,
                              has_next |-> FALSE, has_prev |-> FALSE]]
        ELSE LET limit == q.limit[1]
                 total_count == Len(sorted)
                 rows == Paginate(sorted, q.page, limit)
             IN  [status |-> StatusOk, transactions |-> rows,
                  category_details |-> DetailsOf(rows),
                  pagination |-> [page |-> q.page, limit |-> <<limit>>,
                                  total |-> total_count,
                                  total_pages |-> (total_count + limit - 1) \div limit,
                                  has_next |-> q.page * limit < total_count,
                                  has_prev |-> q.page > 1]]

\* The same report, whatever the page and the limit.
SameReport(q1, q2) ==
    [q1 EXCEPT !.page = 1, !.limit = << >>] =
    [q2 EXCEPT !.page = 1, !.limit = << >>]

PagesNeeded(n, limit) == (n + limit - 1) \div limit

\* What a client holds that first fetches a report unbounded and then
\* fetches the same report page by page, page 1 first, with one limit.  Any
\* other request makes the client drop what it holds.
Stitch(session, user_id, q, response) ==
    IF q.limit = << >>
    THEN [active |-> TRUE, user |-> user_id, query |-> q,
          unbounded |-> response.transactions, limit |-> << >>,
          fetched |-> 0, rows |-> << >>]
    ELSE IF /\ session.active
            /\ session.user = user_id
            /\ SameReport(session.query, q)
            /\ q.page = session.fetched + 1
            /\ \/ session.fetched = 0
               \/ /\ q.limit = session.limit
                  /\ session.fetched <
                         PagesNeeded(Len(session.unbounded), q.limit[1])
    THEN [session EXCEPT !.limit = q.limit,
                         !.fetched = q.page,
                         !.rows = session.rows \o response.transactions]
    ELSE NoPageSession

\* One GET /transactions/ request of an authenticated caller.
GetMyTransactions(user_id, q, arrival) ==
    LET response == ListResponse(transactions, user_id, q, arrival)
    IN  /\ list_result' = [called |-> TRUE, user |-> user_id, query |-> q,
                           status |-> response.status,
                           transactions |-> response.transactions,
                           category_details |-> response.category_details,
                           pagination |-> response.pagination]
        /\ page_session' = Stitch(page_session, user_id, q, response)
        /\ UNCHANGED <<taskVars, rateVars, dispVars, insightVars, summary_result>>

MaxPage == 3

PageLimits == {<< >>, <<1>>, <<2>>}

PageQueries ==
    [page : 1..MaxPage, limit : PageLimits, type : {"expense", "income"},
     category_id : {None}, date_from : {<< >>}, date_to : {<< >>},
     sort_by : {"name", "price"}, order : {"desc", "asc"}]

PageNext ==
    \E u \in Owners, q \in PageQueries :
        \E arrival \in Arrivals({d \in transactions : ListMatch(d, u, q)}) :
            GetMyTransactions(u, q, arrival)

SpecPage == Init /\ [][PageNext]_vars

----------------------------------------------------------------------------
(* Properties of the report pages *)

\* The entries of the store that a report of the caller matches.
MatchingEntries(user_id, q) ==
    {d \in transactions :
        /\ d.user_id = user_id
        /\ q.type # None => d.type = q.type}

\* The client has fetched every page 1..ceil(N/L) of its report.
AllPagesFetched ==
    /\ page_session.active
    /\ page_session.fetched > 0
    /\ page_session.fetched =
           PagesNeeded(Len(page_session.unbounded), page_session.limit[1])

\* C12: for any filter, sort key, order and limit L, the rows of pages
\* 1..ceil(N/L) put end to end hold every matching entry exactly once and
\* stand in the order of the unbounded query, ties on the sort key included.
C12_PagesStitchToUnboundedQuery ==
    AllPagesFetched =>
        LET rows == page_session.rows
            matching == MatchingEntries(page_session.user, page_session.query)
        IN  /\ Len(rows) = Cardinality(matching)
            /\ \A d \in matching :
                   Cardinality({i \in 1..Len(rows) : rows[i] = d}) = 1
            /\ rows = page_session.unbounded

\* The number of matching entries that stand strictly before row, and that
\* do not stand after it, under the sort of the query.
CountBefore(row, matching, q) ==
    Cardinality({d \in matching :
                    Before(d, row, SortField(q.sort_by), SortOrder(q.order))})

CountNotAfter(row, matching, q) ==
    Cardinality({d \in matching :
                    ~Before(row, d, SortField(q.sort_by), SortOrder(q.order))})

\* C13: with a limit L >= 1 and a page P >= 1 over T matching entries the
\* request skips (P-1)*L rows, returns exactly min(L, max(0, T-(P-1)*L)) rows
\* and reports total = T, total_pages = ceil(T/L), has_next = (P*L < T) and
\* has_prev = (P > 1).
C13_PageArithmetic ==
    (list_result.called /\ list_result.query.limit # << >>) =>
        LET q == list_result.query
            L == q.limit[1]
            P == q.page
            rows == list_result.transactions
            matching == MatchingEntries(list_result.user, q)
            T == Cardinality(matching)
            rest == IF T - (P - 1) * L < 0 THEN 0 ELSE T - (P - 1) * L
        IN  /\ Len(rows) = (IF L < rest THEN L ELSE rest)
            /\ \A i \in 1..Len(rows) :
                   /\ rows[i] \in matching
                   /\ CountBefore(rows[i], matching, q) <= (P - 1) * L + i - 1
                   /\ CountNotAfter(rows[i], matching, q) >= (P - 1) * L + i
            /\ list_result.pagination.page = P
            /\ list_result.pagination.limit = <<L>>
            /\ list_result.pagination.total = T
            /\ list_result.pagination.total_pages * L >= T
            /\ (list_result.pagination.total_pages - 1) * L < T
            /\ list_result.pagination.total_pages >= 0
            /\ list_result.pagination.has_next = (P * L < T)
            /\ list_result.pagination.has_prev = (P > 1)

\* C13 witness: page 2 of 2 of a report of three entries, limit 2: one row.
C13_Witness ==
    /\ list_result.called
    /\ list_result.query.limit = <<2>>
    /\ list_result.query.page = 2
    /\ list_result.pagination.total = 3
    /\ list_result.pagination.total_pages = 2
    /\ Len(list_result.transactions) = 1
    /\ list_result.pagination.has_prev
    /\ ~list_result.pagination.has_next

----------------------------------------------------------------------------
(* create_transaction, update_transaction (routers/transactions.py) and the
   handlers of main.py *)

\* The identifiers of the stored documents.
IdsOf(docs) == {d._id : d \in docs}

\* The document with a given identifier.
DocOf(docs, transaction_id) == CHOOSE d \in docs : d._id = transaction_id

\* The bodies of models/transaction.py: user_id is optional (None when
\* absent), date is << >> when absent and then defaults to utcnow().
TxBodies ==
    [user_id : {None, "u2"}, category_id : {"c_food"}, name : {"Jollibee"},
     amount : {500, -500}, type : {"expense"}, date : {<< >>}]

\* The bodies of models.py: user_id is a mandatory integer, held as the text
\* of the number so that it can be compared with the owner identifiers.
MainBodies ==
    [user_id : {"7"}, name : {"Jollibee"}, amount : {500}, type : {"expense"}]

\* The identifiers the database can generate for inserted documents.
NewIds == {"t6", "t7", "t8"}

MaxEntries == 6

\* The documents the requests of the explored callers name.
ApiIds == {"t1", "t5", "t6", "t7", "t8"}

\* lines 516-538: the caller is written over whatever user_id the body has.
CreateTransaction(caller, body) ==
    /\ Cardinality(transactions) < MaxEntries
    /\ \E new_id \in NewIds \ IdsOf(transactions) :
          /\ transactions' = transactions \cup
                 { [_id |-> new_id, user_id |-> caller,
                    category_id |-> body.category_id, name |-> body.name,
                    amount |-> body.amount, type |-> body.type,
                    date |-> IF body.date = << >> THEN now ELSE body.date[1]] }
    /\ UNCHANGED <<taskVars, ledgerVars, rateVars, dispVars, insights_cache,
                   insight_result, compile_result>>

\* lines 563-564: the fields of the body that reach $set.  Only _id and
\* created_at are excluded; a user_id that is not None stays in.
UpdateFields(d, body, t) ==
    [d EXCEPT !.user_id = IF body.user_id = None THEN d.user_id
                          ELSE body.user_id,
              !.category_id = body.category_id,
              !.name = body.name,
              !.amount = body.amount,
              !.type = body.type,
              !.date = IF body.date = << >> THEN t ELSE body.date[1]]

\* lines 542-580: the document is found and updated under the filter
\* {_id, user_id: caller}; otherwise 404 and no change.
UpdateTransaction(caller, transaction_id, body) ==
    /\ \E d \in transactions : d._id = transaction_id /\ d.user_id = caller
    /\ LET d == DocOf(transactions, transaction_id)
       IN  transactions' = (transactions \ {d}) \cup {UpdateFields(d, body, now)}
    /\ UNCHANGED <<taskVars, ledgerVars, rateVars, dispVars, insights_cache,
                   insight_result, compile_result>>

\* main.py lines 38-51: PUT /transactions/{id} without authentication; the
\* filter is {_id} alone and the body's user_id is part of $set.
MainUpdateTransaction(transaction_id, body) ==
    /\ transaction_id \in IdsOf(transactions)
    /\ LET d == DocOf(transactions, transaction_id)
       IN  transactions' = (transactions \ {d}) \cup
               { [d EXCEPT !.user_id = body.user_id, !.name = body.name,
                           !.amount = body.amount, !.type = body.type] }
    /\ UNCHANGED <<taskVars, ledgerVars, rateVars, dispVars, insights_cache,
                   insight_result, compile_result>>

\* main.py lines 53-61: DELETE /transactions/{id} without authentication.
MainDeleteTransaction(transaction_id) ==
    /\ transaction_id \in IdsOf(transactions)
    /\ transactions' = {d \in transactions : d._id # transaction_id}
    /\ UNCHANGED <<taskVars, ledgerVars, rateVars, dispVars, insights_cache,
                   insight_result, compile_result>>

ApiNext ==
    \/ \E u \in Owners, body \in TxBodies : CreateTransaction(u, body)
    \/ \E u \in Owners, id \in ApiIds, body \in TxBodies :
          UpdateTransaction(u, id, body)
    \/ \E u \in Owners, id \in ApiIds : DeleteTransaction(u, id)
    \/ \E id \in ApiIds, body \in MainBodies : MainUpdateTransaction(id, body)
    \/ \E id \in ApiIds : MainDeleteTransaction(id)

SpecApi == Init /\ [][ApiNext]_vars

----------------------------------------------------------------------------
(* Properties of the ownership of entries *)

\* C14: an entry is modified or deleted only by a request authenticated as
\* the owner of the entry: every step that changes or removes a stored entry
\* is an update or a delete scoped to the caller, made by the entry's owner.
C14_OnlyTheOwnerMutates ==
    [][\A d \in transactions :
           d \notin transactions' =>
               \/ DeleteTransaction(d.user_id, d._id)
               \/ \E body \in TxBodies :
                      UpdateTransaction(d.user_id, d._id, body)]_vars

\* C15: the owner of an entry is the authenticated caller and never a value
\* of the request body: an entry created by a request carries the caller as
\* user_id, and an update leaves the stored user_id of its entry as it was.
C15_OwnerNeverTakenFromBody ==
    [][/\ \A u \in Owners, body \in TxBodies :
             CreateTransaction(u, body) =>
                 \A d \in transactions' \ transactions : d.user_id = u
       /\ \A u \in Owners, id \in ApiIds, body \in TxBodies :
             UpdateTransaction(u, id, body) =>
                 DocOf(transactions', id).user_id =
                     DocOf(transactions, id).user_id]_vars

----------------------------------------------------------------------------
(* get_transaction_summary (routers/transactions.py) *)

\* The calendar fields of an instant (now.year, now.month, now.day) and
\* now.weekday(), Monday = 0; 2024-01-01 is a Monday.
ModelYears == 2023..2026

YearOf(t) ==
    CHOOSE y \in ModelYears : DateTime(y, 1, 1) <= t /\ t < DateTime(y + 1, 1, 1)

MonthOf(t) ==
    CHOOSE m \in 1..12 :
        /\ DateTime(YearOf(t), m, 1) <= t
        /\ t < DateTime(YearOf(t), m, 1)
                 + DaysInMonth(YearOf(t), m) * SecondsPerDay

DayOfMonth(t) ==
    (t - DateTime(YearOf(t), MonthOf(t), 1)) \div SecondsPerDay + 1

Weekday(t) == (t \div SecondsPerDay) % 7

\* lines 260-308: the window of a request, [raised, start, end]; a bound is
\* << >> when there is none.  Optional parameters are << >> when absent.
SummaryWindow(p, t) ==
    CASE p.mode = "daily" ->
           LET start_date == DateTime(YearOf(t), MonthOf(t), DayOfMonth(t))
           IN  [raised |-> FALSE, start |-> <<start_date>>,
                end |-> <<start_date + SecondsPerDay>>]
      [] p.mode = "weekly" ->
           LET start_of_week == t - Weekday(t) * SecondsPerDay
               start_date == DateTime(YearOf(start_of_week),
                                      MonthOf(start_of_week),
                                      DayOfMonth(start_of_week))
           IN  [raised |-> FALSE, start |-> <<start_date>>,
                end |-> <<start_date + 7 * SecondsPerDay>>]
      [] p.mode = "monthly" ->
           LET target_year == IF p.year # << >> THEN p.year[1] ELSE YearOf(t)
               target_month == IF p.month # << >> THEN p.month[1] ELSE MonthOf(t)
           IN  [raised |-> FALSE,
                start |-> <<DateTime(target_year, target_month, 1)>>,
                end |-> IF target_month = 12
                        THEN <<DateTime(target_year + 1, 1, 1)>>
                        ELSE <<DateTime(target_year, target_month + 1, 1)>>]
      [] p.mode = "yearly" ->
           LET target_year == IF p.year # << >> THEN p.year[1] ELSE YearOf(t)
           IN  [raised |-> FALSE, start |-> <<DateTime(target_year, 1, 1)>>,
                end |-> <<DateTime(target_year + 1, 1, 1)>>]
      [] p.mode = "custom" ->
           IF p.date_from = << >> /\ p.date_to = << >>
           THEN [raised |-> TRUE, start |-> << >>, end |-> << >>]
           ELSE [raised |-> FALSE,
                 start |-> IF p.date_from # << >>
                           THEN <<FromIsoformat(p.date_from)>>
                           ELSE <<DateTime(2000, 1, 1)>>,
                 end |-> IF p.date_to # << >>
                         THEN <<FromIsoformat(p.date_to) + SecondsPerDay>>
                         ELSE <<t + SecondsPerDay>>]
      [] p.mode = "all" -> [raised |-> FALSE, start |-> << >>, end |-> << >>]

\* lines 255, 311-316: the match conditions, $gte start and $lte end.
SummaryMatch(d, user_id, w) ==
    /\ d.user_id = user_id
    /\ w.start # << >> => w.start[1] <= d.date
    /\ w.end # << >> => d.date <= w.end[1]

\* Totals that classify an entry by the sign of its amount.
SummaryTotalsBySign(matched) ==
    [total_income |-> SumAmounts({d \in matched : d.amount >= 0}),
     total_expense |-> SumAmounts({d \in matched : d.amount < 0}),
     income_count |-> Cardinality({d \in matched : d.amount >= 0}),
     expense_count |-> Cardinality({d \in matched : d.amount < 0})]

\* lines 322-344: the $group stage, $cond on $type.
SummaryTotals(matched) ==
    [total_income |-> SumAmounts({d \in matched : d.type = "income"}),
     total_expense |-> SumAmounts({d \in matched : d.type = "expense"}),
     income_count |-> Cardinality({d \in matched : d.type = "income"}),
     expense_count |-> Cardinality({d \in matched : d.type = "expense"})]

\* lines 300-304: only the custom mode parses date_from and date_to; the
\* other modes never read them.
SummaryDatesRaise(p) ==
    /\ p.mode = "custom"
    /\ \/ p.date_from # << >> /\ IsoformatRaises(p.date_from)
       \/ p.date_to # << >> /\ IsoformatRaises(p.date_to)

\* lines 254-381: the response; the zero response when nothing matches.
SummaryResponse(docs, user_id, p, t) ==
    LET w == SummaryWindow(p, t)
        matched == {d \in docs : SummaryMatch(d, user_id, w)}
        totals == SummaryTotals(matched)
    IN  IF SummaryDatesRaise(p)
        THEN [status |-> StatusInternalError, start |-> << >>, end |-> << >>,
              total_income |-> 0, total_expense |-> 0, cash_flow |-> 0,
              income_count |-> 0, expense_count |-> 0]
        ELSE IF w.raised
        THEN [status |-> 400, start |-> << >>, end |-> << >>,
              total_income |-> 0, total_expense |-> 0, cash_flow |-> 0,
              income_count |-> 0, expense_count |-> 0]
        ELSE IF matched = {}
        THEN [status |-> StatusOk, start |-> w.start, end |-> w.end,
              total_income |-> 0, total_expense |-> 0, cash_flow |-> 0,
              income_count |-> 0, expense_count |-> 0]
        ELSE [status |-> StatusOk, start |-> w.start, end |-> w.end,
              total_income |-> totals.total_income,
              total_expense |-> totals.total_expense,
              cash_flow |-> totals.total_income - totals.total_expense,
              income_count |-> totals.income_count,
              expense_count |-> totals.expense_count]

\* One GET /transactions/summary request of an authenticated caller.
GetTransactionSummary(user_id, p) ==
    /\ summary_result' = [called |-> TRUE, user |-> user_id, request |-> p,
                          at |-> now,
                          response |-> SummaryResponse(transactions, user_id,
                                                       p, now)]
    /\ UNCHANGED <<taskVars, rateVars, dispVars, insightVars, list_result,
                   page_session>>

NoParams ==
    [year |-> << >>, month |-> << >>, date_from |-> << >>, date_to |-> << >>]

SummaryRequests ==
    {[mode |-> m] @@ NoParams : m \in {"daily", "weekly", "all", "custom"}}
    \cup {[mode |-> "monthly"] @@ [NoParams EXCEPT !.year = y, !.month = m] :
             y \in {<< >>, <<2024>>}, m \in {<< >>, <<12>>}}
    \cup {[mode |-> "yearly"] @@ [NoParams EXCEPT !.year = y] :
             y \in {<< >>, <<2024>>}}
    \cup {[mode |-> "custom"] @@ [NoParams EXCEPT !.date_to = <<2024, 12, 31>>]}
    \cup {[mode |-> "custom"] @@ [NoParams EXCEPT !.date_to = <<2024, 2, 30>>]}
    \cup {[mode |-> m] @@ [NoParams EXCEPT !.date_from = <<2024, 13, 1>>] :
             m \in {"custom", "monthly"}}

\* The instants at which requests arrive: noon of 2024-12-31 and the first
\* instant of 2025.
SummaryInstants == {DateTime(2024, 12, 31) + 12 * 60 * 60, DateTime(2025, 1, 1)}

\* The entries a ledger of owner u1 can hold; s3 is stamped at the first
\* instant of 2025.
SummaryEntry(id, category_id, name, amount, type, date) ==
    [_id |-> id, user_id |-> "u1", category_id |-> category_id,
     name |-> name, amount |-> amount, type |-> type, date |-> date]

\* The ledgers: each income entry is absent or stored with either sign, each
\* expense entry is stored with either sign; owner u2 holds one entry.
SummaryLedgers ==
    { {[SummaryEntry("s5", "c_food", "Jollibee", 950, "expense",
                     DateTime(2024, 12, 20)) EXCEPT !.user_id = "u2"]}
      \cup {SummaryEntry("s2", "c_food", "Jollibee", g2 * 500, "expense",
                         DateTime(2024, 12, 31) + 60 * 60)}
      \cup {SummaryEntry("s3", "c_bills", "Meralco", g3 * 200, "expense",
                         DateTime(2025, 1, 1))}
      \cup {SummaryEntry("s1", "c_salary", "Payroll", g * 10000, "income",
                         DateTime(2024, 12, 15)) : g \in g1}
      \cup {SummaryEntry("s4", "c_salary", "Payroll", g * 300, "income",
                         DateTime(2024, 12, 1)) : g \in g4}
      : g1 \in {{}, {1}, {-1}}, g4 \in {{}, {1}, {-1}},
        g2 \in {1, -1}, g3 \in {1, -1} }

InitSummary ==
    /\ insight_tasks = [slot \in TaskSlots |-> IdleTask]
    /\ chat_tasks = [slot \in TaskSlots |-> IdleTask]
    /\ now \in SummaryInstants
    /\ transactions \in SummaryLedgers
    /\ user_requests = << >>
    /\ rate_result = NoRateResult
    /\ current_model_index = 0
    /\ dispatch_result = NoDispatchResult
    /\ insights_cache = << >>
    /\ insight_result = NoInsightResult
    /\ compile_result = NoCompileResult
    /\ list_result = NoListResult
    /\ page_session = NoPageSession
    /\ summary_result = NoSummaryResult

SummaryNext ==
    \/ \E u \in Owners, p \in SummaryRequests : GetTransactionSummary(u, p)
    \/ \E u \in Owners : CompileCall(transactions, u, Returns(<<Junk>>))

SpecSummary == InitSummary /\ [][SummaryNext]_vars

----------------------------------------------------------------------------
(* Properties of the summary endpoint and of the insight aggregator *)

\* The sum of the amounts and the number of the entries of one kind.
KindTotal(entries, kind) == SumAmounts({d \in entries : d.type = kind})

KindCount(entries, kind) == Cardinality({d \in entries : d.type = kind})

\* The entries the last summary request matched, and the entries the last
\* aggregation matched (window from the start of the month to now).
SummaryMatched ==
    {d \in transactions :
        /\ d.user_id = summary_result.user
        /\ summary_result.response.start # << >> =>
               summary_result.response.start[1] <= d.date
        /\ summary_result.response.end # << >> =>
               d.date <= summary_result.response.end[1]}

AggregateMatched ==
    {d \in transactions :
        d.user_id = compile_result.user /\ 0 <= d.date /\ d.date <= now}

\* C16: in the summary endpoint and in the insight aggregator an entry
\* contributes to the income total and count iff its kind is income, and to
\* the expense total and count iff its kind is expense, whatever the sign of
\* its amount.
C16_ClassifiedByKindNotSign ==
    /\ (summary_result.called /\ summary_result.response.status = StatusOk) =>
           LET r == summary_result.response
           IN  /\ r.total_income = KindTotal(SummaryMatched, "income")
               /\ r.total_expense = KindTotal(SummaryMatched, "expense")
               /\ r.income_count = KindCount(SummaryMatched, "income")
               /\ r.expense_count = KindCount(SummaryMatched, "expense")
    /\ compile_result.called =>
           LET data == compile_result.data
           IN  /\ data.total_income = KindTotal(AggregateMatched, "income")
               /\ data.total_expense =
                      Abs(KindTotal(AggregateMatched, "expense"))
               /\ data.total_transactions =
                      KindCount(AggregateMatched, "income")
                      + KindCount(AggregateMatched, "expense")

\* C16 witness: a summary counted an income entry stored with a negative
\* amount as income and two expense entries, one stored with a positive and
\* one with a negative amount, as expenses, and an aggregation counted a
\* negative income total.
C16_Witness ==
    /\ summary_result.called
    /\ summary_result.response.income_count = 1
    /\ summary_result.response.total_income = -10000
    /\ summary_result.response.expense_count = 2
    /\ summary_result.response.total_expense = 300
    /\ compile_result.called
    /\ compile_result.data.total_income = -10000

\* C17: the total_expense of a summary is never negative, also when expense
\* entries are stored with negative amounts, and the cash flow is
\* total_income minus that total_expense.
C17_TotalExpenseNonNegative ==
    /\ (summary_result.called /\ summary_result.response.status = StatusOk) =>
           /\ summary_result.response.total_expense >= 0
           /\ summary_result.response.cash_flow =
                  summary_result.response.total_income
                  - summary_result.response.total_expense
    /\ compile_result.called =>
           /\ compile_result.data.total_expense >= 0
           /\ compile_result.data.net_cash_flow =
                  compile_result.data.total_income
                  - compile_result.data.total_expense

\* C18 as stated: the savings rate is 0 when total_income is 0 and equals
\* exactly (total_income - total_expense) / total_income * 100 when
\* total_income > 0 (the rate is held in hundredths of a percent).
C18_SavingsRateExact ==
    compile_result.called =>
        LET data == compile_result.data
        IN  /\ data.total_income = 0 => data.savings_rate = 0
            /\ data.total_income > 0 =>
                   data.savings_rate * data.total_income =
                       (data.total_income - data.total_expense) * 100 * 100

\* C18 amended: the savings rate is 0 when total_income is 0, and when
\* total_income > 0 it is (total_income - total_expense) / total_income * 100
\* rounded to two decimals, so it lies within half a hundredth of a percent
\* of the exact value; income 10000 and expense 500 give cash flow 9500 and
\* savings rate 95.00.
C18_SavingsRateRounded ==
    compile_result.called =>
        LET data == compile_result.data
        IN  /\ data.total_income = 0 => data.savings_rate = 0
            /\ data.total_income > 0 =>
                   2 * Abs(data.savings_rate * data.total_income
                           - (data.total_income - data.total_expense) * 100 * 100)
                       <= data.total_income
            /\ (data.total_income = 10000 /\ data.total_expense = 500) =>
                   data.net_cash_flow = 9500 /\ data.savings_rate = 9500

\* C18 witness: income 300 and expense 700 gave the rate -133.33, the exact
\* value -133.333... rounded to two decimals.
C18_Witness ==
    /\ compile_result.called
    /\ compile_result.data.total_income = 300
    /\ compile_result.data.total_expense = 700
    /\ compile_result.data.savings_rate = -13333

\* C19: in the modes daily, weekly, monthly and yearly a summary counts an
\* entry iff start <= timestamp < end; the monthly window of month 12 of
\* year Y ends at the first instant of year Y + 1.
C19_WindowIsHalfOpen ==
    (/\ summary_result.called
     /\ summary_result.request.mode \in {"daily", "weekly", "monthly", "yearly"}) =>
        LET r == summary_result.response
            p == summary_result.request
            inside == {d \in transactions :
                          /\ d.user_id = summary_result.user
                          /\ r.start[1] <= d.date
                          /\ d.date < r.end[1]}
        IN  /\ r.income_count + r.expense_count = Cardinality(inside)
            /\ (p.mode = "monthly" /\ p.month = <<12>> /\ p.year = <<2024>>) =>
                   r.end = <<DateTime(2025, 1, 1)>>

----------------------------------------------------------------------------
(* The date bounds of the report query *)

\* Unbounded reports with the date bounds given or not.
ReportQueries ==
    [page : {1}, limit : {<< >>}, type : {None}, category_id : {None},
     date_from : {<< >>, <<2024, 12, 15>>},
     date_to : {<< >>, <<2024, 12, 14>>, <<2024, 12, 31>>},
     sort_by : {"date"}, order : {"desc", "asc"}]

ReportNext ==
    \E u \in Owners, q \in ReportQueries :
        \E arrival \in Arrivals({d \in transactions : ListMatch(d, u, q)}) :
            GetMyTransactions(u, q, arrival)

SpecReport == InitSummary /\ [][ReportNext]_vars

\* C20: a date_to naming day D includes every entry stamped on day D and
\* excludes every entry stamped at or after 00:00 of day D + 1; with only
\* date_from the interval has no upper bound, with only date_to no lower.
C20_DateToIsExclusiveOfNextDay ==
    list_result.called =>
        LET q == list_result.query
            rows == list_result.transactions
            expected ==
                {d \in transactions :
                    /\ d.user_id = list_result.user
                    /\ q.date_from # << >> =>
                           d.date >= DateTime(q.date_from[1], q.date_from[2],
                                              q.date_from[3])
                    /\ q.date_to # << >> =>
                           d.date < DateTime(q.date_to[1], q.date_to[2],
                                             q.date_to[3]) + 24 * 60 * 60}
        IN  {rows[i] : i \in 1..Len(rows)} = expected

----------------------------------------------------------------------------
(* Reports of a ledger that is written to between the requests *)

\* The bodies of the entries that are created and updated here: the category
\* id is any text (category_id: str), here the empty text, a text that is no
\* object id, the id of a category that does not exist and the id of the
\* category whose group does not exist.
LedgerBodies ==
    [user_id : {None}, category_id : {"", "food", "c_gone", "c_bills"},
     name : {"Payroll"}, amount : {700}, type : {"income"}, date : {<< >>}]

\* Paginated reports of one kind of entry, and two reports with a date that
\* names no day of the calendar.
LedgerQueries ==
    [page : {1, 2}, limit : {<<2>>}, type : {"income", "expense"},
     category_id : {None}, date_from : {<< >>}, date_to : {<< >>},
     sort_by : {"amount"}, order : {"desc"}]
    \cup
    [page : {1}, limit : {<<2>>}, type : {"expense"}, category_id : {None},
     date_from : {<<2024, 13, 1>>}, date_to : {<< >>},
     sort_by : {"amount"}, order : {"desc"}]
    \cup
    [page : {1}, limit : {<<2>>}, type : {"expense"}, category_id : {None},
     date_from : {<<2024, 1, 1>>}, date_to : {<<2024, 2, 30>>},
     sort_by : {"amount"}, order : {"desc"}]

\* The documents a GET /transactions/ request matches; none when building
\* the match conditions raised.
ListMatched(user_id, q) ==
    IF ListDatesRaise(q) THEN {}
    ELSE {d \in transactions : ListMatch(d, user_id, q)}

\* Requests of owner u1, who holds at most one created entry at a time.
LedgerNext ==
    \/ \E q \in LedgerQueries :
          \E arrival \in Arrivals(ListMatched("u1", q)) :
              GetMyTransactions("u1", q, arrival)
    \/ \E body \in LedgerBodies :
          /\ IdsOf(transactions) \cap NewIds = {}
          /\ CreateTransaction("u1", body)
    \/ \E id \in ApiIds, body \in LedgerBodies :
          UpdateTransaction("u1", id, body)
    \/ \E id \in ApiIds : DeleteTransaction("u1", id)

SpecLedger == Init /\ [][LedgerNext]_vars

\* Reports and summaries with the date bounds absent, valid or naming no day
\* of the calendar.
FilterQueries ==
    [page : {1, 2}, limit : {<<2>>}, type : {"income", "expense"},
     category_id : {None},
     date_from : {<< >>, <<2024, 1, 1>>, <<2024, 13, 1>>},
     date_to : {<< >>, <<2024, 2, 30>>},
     sort_by : {"amount"}, order : {"desc"}]

FilterNext ==
    \/ \E u \in Owners, q \in FilterQueries :
          \E arrival \in Arrivals(ListMatched(u, q)) :
              GetMyTransactions(u, q, arrival)
    \/ \E u \in Owners, p \in SummaryRequests : GetTransactionSummary(u, p)

SpecFilter == Init /\ [][FilterNext]_vars

----------------------------------------------------------------------------
(* Properties of the enrichment, of the date filters and of the page total *)

\* The step is a GET /transactions/ request.
IsListRequest == list_result' # list_result

\* The entries of the store that a report of one kind of entry of the caller
\* matches when it bounds no date.
KindEntries(user_id, q) ==
    {d \in transactions : d.user_id = user_id /\ d.type = q.type}

\* C21: the enrichment never fails a report and drops no entry: a report
\* whose dates are well formed succeeds and counts every matching entry, and
\* a row whose category id is absent, empty, malformed or names no category
\* carries the category name "Others", the icon "", the entry's own kind and
\* the group name "Others"; a category whose group is missing gives the
\* group name "Others".
C21_EnrichmentNeverFailsAReport ==
    [][(IsListRequest /\ ~ListDatesRaise(list_result'.query)) =>
          LET r == list_result'
              rows == r.transactions
          IN  /\ r.status = StatusOk
              /\ r.pagination.total =
                     Cardinality(KindEntries(r.user, r.query))
              /\ \A i \in 1..Len(rows) :
                     LET c == r.category_details[i]
                     IN  /\ rows[i].category_id \notin {x._id : x \in Categories} =>
                                /\ c.name = "Others"
                                /\ c.icon = ""
                                /\ c.type = rows[i].type
                                /\ c.group_name = "Others"
                         /\ rows[i].category_id = "c_bills" =>
                                c.group_name = "Others"]_vars

\* A date parameter that is given and is no valid ISO date.
BadDate(text) == text # << >> /\ IsoformatRaises(text)

\* C22: a report or summary request whose date_from or date_to is no valid
\* ISO date is rejected with a client error (status 4xx), never with an
\* internal error, and returns no data.
C22_MalformedDateIsClientError ==
    /\ (/\ list_result.called
        /\ \/ BadDate(list_result.query.date_from)
           \/ BadDate(list_result.query.date_to)) =>
           /\ list_result.status \in 400..499
           /\ list_result.transactions = << >>
    /\ (/\ summary_result.called
        /\ \/ BadDate(summary_result.request.date_from)
           \/ BadDate(summary_result.request.date_to)) =>
           /\ summary_result.response.status \in 400..499
           /\ summary_result.response.income_count = 0
           /\ summary_result.response.expense_count = 0

\* C25: in a paginated response that succeeds, the total and the rows come
\* from the store as it stands at the one instant of the aggregation, also
\* when entries are created, updated and deleted between the requests: the
\* total is the number of matching entries of that store, and the rows are
\* the slice [(page-1)*limit, page*limit) of those entries in sorted order.
C25_TotalAndRowsFromOneSnapshot ==
    [][(IsListRequest /\ list_result'.status = StatusOk) =>
          LET r == list_result'
              q == r.query
              L == q.limit[1]
              P == q.page
              rows == r.transactions
              matching == KindEntries(r.user, q)
              T == Cardinality(matching)
              rest == IF T - (P - 1) * L < 0 THEN 0 ELSE T - (P - 1) * L
          IN  /\ r.pagination.total = T
              /\ Len(rows) = (IF L < rest THEN L ELSE rest)
              /\ \A i, j \in 1..Len(rows) : i # j => rows[i] # rows[j]
              /\ \A i \in 1..Len(rows) :
                     /\ rows[i] \in matching
                     /\ CountBefore(rows[i], matching, q) <= (P - 1) * L + i - 1
                     /\ CountNotAfter(rows[i], matching, q) >= (P - 1) * L + i]_vars

\* C25 witness: after an entry was created and another was updated, page 2
\* of the report of the income entries holds the third of three entries.
C25_Witness ==
    /\ list_result.called
    /\ list_result.status = StatusOk
    /\ list_result.query.type = "income"
    /\ list_result.query.page = 2
    /\ list_result.pagination.total = 3
    /\ Len(list_result.transactions) = 1
    /\ IdsOf(transactions) \cap NewIds # {}
    /\ \E d \in transactions : d._id = "t1" /\ d.type = "income"

----------------------------------------------------------------------------
(* Properties of the owner's list of timestamps *)

\* C26: after every completed check_rate_limit call of an owner, accepted or
\* rejected, the owner's list holds at most 10 timestamps, every one of them
\* younger than 60 minutes at the time of the check, in non-decreasing
\* order, so that element 0 is the oldest unexpired accepted request.
C26_ListBoundedFreshAndOrdered ==
    rate_result.user # None =>
        LET list == RequestsOf(user_requests, rate_result.user)
        IN  /\ Len(list) <= MaxRequests
            /\ \A i \in 1..Len(list) :
                   /\ rate_result.at - list[i] < WindowMinutes * SecondsPerMinute
                   /\ list[i] <= rate_result.at
            /\ \A i, j \in 1..Len(list) : i <= j => list[i] <= list[j]
            /\ \A i \in 1..Len(list) : list[1] <= list[i]

\* C26 witness: a check made a whole window after ten accepted requests
\* pruned all ten and left the list with its own timestamp alone.
C26_Witness ==
    /\ rate_result.user # None
    /\ rate_result.accepted
    /\ Len(rate_result.before) = MaxRequests
    /\ rate_result.at = WindowMinutes * SecondsPerMinute
    /\ RequestsOf(user_requests, rate_result.user) = <<rate_result.at>>

\* C28: the retry-after value of a rejection is never smaller than the time
\* that remains until the oldest counted request leaves the 60-minute
\* window, so that an owner who waits the advertised minutes is accepted.
C28_RetryAfterCoversRemainingTime ==
    (rate_result.user # None /\ ~rate_result.accepted) =>
        LET inside == InsideWindow(rate_result.before, rate_result.at)
        IN  rate_result.retry_minutes * SecondsPerMinute
                >= inside[1] + WindowMinutes * SecondsPerMinute - rate_result.at

----------------------------------------------------------------------------
(* Properties of the life of the cache entries *)

\* C23: the cache changes only by the store of a request that found no fresh
\* entry under its key and whose generation returned a payload: the step
\* then writes that payload under that key and nothing else; a request that
\* is rate limited, served from the cache, short of data or whose generation
\* raised leaves the cache as it was, and no step removes an entry, so a
\* stale entry stays in the map until a store under its key overwrites it.
C23_CacheChangesOnlyByStoreAfterMiss ==
    [][/\ DOMAIN insights_cache \subseteq DOMAIN insights_cache'
       /\ insights_cache' # insights_cache =>
              LET r == insight_result'
              IN  /\ IsInsightRequest
                  /\ r.kind = "insights"
                  /\ ~r.cached
                  /\ r.backend_calls = 1
                  /\ ~CacheFresh(insights_cache, r.key, now)
                  /\ DOMAIN insights_cache' = DOMAIN insights_cache \cup {r.key}
                  /\ insights_cache'[r.key] =
                         [insights |-> r.insights, cached_time |-> now]
                  /\ \A k \in DOMAIN insights_cache :
                         k # r.key => insights_cache'[k] = insights_cache[k]
       /\ (IsInsightRequest
            /\ insight_result'.kind \in {"rate_limited", "insufficient_data",
                                         "error"}) =>
              insights_cache' = insights_cache
       /\ (IsInsightRequest /\ insight_result'.cached) =>
              insights_cache' = insights_cache]_vars

\* C23 witness: two entries are in the map and one of them is stale: it was
\* stored a whole TTL ago and the other one just now.
C23_Witness ==
    /\ insight_result.kind = "insights"
    /\ ~insight_result.cached
    /\ insight_result.at >= CacheTtlHours * 60 * 60
    /\ \E k1, k2 \in DOMAIN insights_cache :
           /\ insights_cache[k1].cached_time = 0
           /\ insights_cache[k2].cached_time = insight_result.at
           /\ k2 = insight_result.key

----------------------------------------------------------------------------
(* Properties of the requests served concurrently *)

\* The slots in which a request of owner u entered the handler in this step.
StartedFor(u) ==
    {s \in TaskSlots :
        /\ SlotFree(insight_tasks, s)
        /\ insight_tasks'[s] # insight_tasks[s]
        /\ insight_tasks'[s].user = u}

\* C24: whatever the interleaving of the insight requests being served, the
\* check of one request reads, prunes, tests and appends in one step: the
\* list of an owner changes only by the append of one accepted request of
\* that owner, which finds fewer than 10 timestamps inside the window and
\* leaves the kept timestamps followed by its own; a rejected request
\* appends nothing; the list never holds more than 10 timestamps; and the
\* step that changes the list of an owner leaves the list of every other
\* owner as it was.
C24_RateCheckIsAtomicPerOwner ==
    [][\A u \in Owners :
          LET old == RequestsOf(user_requests, u)
              new == RequestsOf(user_requests', u)
              kept == InsideWindow(old, now)
          IN  /\ Len(new) <= MaxRequests
              /\ new # old =>
                     /\ Len(kept) < MaxRequests
                     /\ new = Append(kept, now)
                     /\ \A v \in Owners \ {u} :
                            RequestsOf(user_requests', v) =
                                RequestsOf(user_requests, v)
                     /\ \E s \in TaskSlots :
                            /\ SlotFree(insight_tasks, s)
                            /\ insight_tasks'[s].pc # "idle"
                            /\ insight_tasks'[s].user = u
                            /\ insight_tasks'[s].response.at = now
                            /\ insight_tasks'[s].response.kind # "rate_limited"
              /\ \A s \in StartedFor(u) :
                     IF insight_tasks'[s].response.kind = "rate_limited"
                     THEN Len(kept) >= MaxRequests /\ new = old
                     ELSE Len(kept) < MaxRequests /\ new = Append(kept, now)]_vars

\* C24 witness: while a request of owner u1 is suspended in its aggregation,
\* another request of u1 was rejected on the full list of u1, and owner u2
\* has a list of its own.
C24_Witness ==
    /\ insight_tasks[1].pc = "aggregating"
    /\ insight_tasks[1].user = "u1"
    /\ insight_tasks[2].pc = "done"
    /\ insight_tasks[2].user = "u1"
    /\ insight_tasks[2].response.kind = "rate_limited"
    /\ Len(RequestsOf(user_requests, "u1")) = MaxRequests
    /\ Len(RequestsOf(user_requests, "u2")) = 1

\* C27: a generation is run for a fingerprint only when the cache holds no
\* fresh entry for it: of two requests with one fingerprint that both found
\* the cache cold, the second to resume does not generate and store again.
C27_OneGenerationPerFingerprint ==
    [][\A s \in TaskSlots :
          (/\ insight_tasks[s].pc = "aggregating"
           /\ insight_tasks'[s].pc = "done"
           /\ insight_tasks'[s].response.backend_calls > 0) =>
              ~CacheFresh(insights_cache, insight_tasks[s].key, now)]_vars

\* C29: two requests that differ in the owner, in the day the window starts,
\* in the day it ends or in the category filter (no filter and the filter
\* "None" included) never have the same cache key.
C29_FingerprintIsInjective ==
    \A s1, s2 \in TaskSlots :
        (/\ insight_tasks[s1].pc # "idle"
         /\ insight_tasks[s2].pc # "idle"
         /\ insight_tasks[s1].key # << >>
         /\ insight_tasks[s1].key = insight_tasks[s2].key) =>
            /\ insight_tasks[s1].user = insight_tasks[s2].user
            /\ DateOf(insight_tasks[s1].start_date) =
                   DateOf(insight_tasks[s2].start_date)
            /\ DateOf(insight_tasks[s1].end_date) =
                   DateOf(insight_tasks[s2].end_date)
            /\ insight_tasks[s1].body.category = insight_tasks[s2].body.category

\* C30: in every successful chat response, model_used names the backend that
\* produced the reply, whatever other chat requests did to the current index
\* of the manager while the request was suspended.
C30_ModelUsedNamesTheReplyingBackend ==
    \A s \in TaskSlots :
        (chat_tasks[s].pc = "done" /\ chat_tasks[s].status = StatusOk) =>
            chat_tasks[s].model_used = chat_tasks[s].reply_model

====
